---- MODULE Spec2Model ----
(***************************************************************************)
(* The YAML merge engine of pires-cli (package fileeditor):               *)
(* MergeYAMLFiles -> MergeRootDocumentNodes -> ConvertMappingNodeToMap /   *)
(* MergeMappingPreservingKeyOrder -> MergeValuesForKey ->                  *)
(* MergeArraysUniquely.                                                    *)
(*                                                                         *)
(* yaml.Node values are Go pointers; they are modelled as indices into a   *)
(* heap (a sequence of node records), so that sharing, allocation and      *)
(* in-place mutation are visible.  A Go map is a TLA+ function; ranging    *)
(* over it visits its keys in an order the runtime chooses.                *)
(***************************************************************************)
EXTENDS Integers, Sequences, FiniteSets, TLC

VARIABLES
    heap,          \* all yaml.Node values allocated so far
    heap0,         \* the heap as the parser left it (history variable)
    rootNode1,     \* per run: the parsed primary document (MergeYAMLFiles)
    rootNode2,     \* per run: the parsed secondary document
    pc,            \* per run: "idle" | "parsed" | "done"
    mergedDoc,     \* per run: what MergeRootDocumentNodes returned (0 = nil)
    errMerge,      \* per run: the error MergeYAMLFiles returns ("nil" = none)
    yamlOut,       \* per run: the string MergeYAMLFiles returns
    logged,        \* per run: number of "Failed to encode YAML node" log lines
    arg1,          \* direct call of MergeArraysUniquely: first array
    arg2,          \* direct call of MergeArraysUniquely: second array
    arrOut,        \* result of MergeArraysUniquely(arg1, arg2)   (0 = not yet)
    arrOut2,       \* result of MergeArraysUniquely(arrOut, arrOut) (0 = not yet)
    disk,          \* per run: the two files MergeYAMLFiles is called on
    trace,         \* per run: the calls MergeYAMLFiles has made (history variable)
    findYqOnce,    \* sync.Once: "new" | "running" | "done"
    foundYqPath,   \* package variable: path of the extracted yq ("" = none)
    tmpDir,        \* the temporary files that exist
    yqCalls,       \* how often SearchForYq ran, os.CreateTemp succeeded (history)
    gpc,           \* per goroutine: where it stands in GetYqPath
    yqResults,     \* per goroutine: what its GetYqPath calls returned (history)
    exited,        \* the process has ended in common.Logger("fatal", ...)
    frame,         \* per run: the locals of a merge that runs step by step
    embedded,      \* the entries of the embedded source tree, in walk order
    target,        \* what stands at the destination path of each entry
    target0,       \* target as CopyAndMergeYAMLDir found it (history variable)
    walkPos,       \* the entry fs.WalkDir visits next
    walkErr,       \* the error the callback returned ("nil" = none)
    tmpEmbedFiles, \* the files os.CreateTemp made, and whether each still exists
    osArgs,        \* the command line: the command named and the options given
    environ,       \* the value of the environment variable CLI_GCP_PROJECT
    configFiles,   \* the file --config-file names and the fallback .env file
    mainPc,        \* where the process stands between main and the end of Execute
    Properties,    \* config.Properties
    VPNCheckConnection,  \* config.VPNCheckConnection
    issued,        \* the external commands and checks run so far (history variable)
    fsys,          \* what stands at the directory and at the file ModifyYamlInPlace is given
    modCalls,      \* the calls of ModifyYamlInPlace so far (history variable)
    cloud,         \* the service accounts, SQL users and databases that exist
    gcpCalls       \* the calls of the functions of package gcp so far (history variable)

mergeVars == <<heap, heap0, rootNode1, rootNode2, pc, mergedDoc, errMerge, yamlOut,
               logged, arg1, arg2, arrOut, arrOut2>>

fileVars == <<disk, trace>>

yqVars == <<findYqOnce, foundYqPath, tmpDir, yqCalls, gpc, yqResults, exited>>

stepVars == <<frame>>

dirVars == <<embedded, target, target0, walkPos, walkErr, tmpEmbedFiles>>

cliVars == <<osArgs, environ, configFiles, mainPc, Properties, VPNCheckConnection, issued>>

opVars == <<fsys, modCalls, cloud, gcpCalls>>

\* What the merge functions never touch.
restVars == <<yqVars, stepVars, dirVars, cliVars, opVars>>

\* What GetYqPath and SearchForYq never touch.
notYqVars == <<mergeVars, fileVars, stepVars, dirVars, cliVars, opVars>>

\* What CopyAndMergeYAMLDir leaves alone.
notDirVars == <<mergeVars, fileVars, yqVars, stepVars, cliVars, opVars>>

\* What main and the commands of package cmd leave alone.
notCliVars == <<mergeVars, fileVars, yqVars, stepVars, dirVars, opVars>>

vars == <<mergeVars, fileVars, yqVars, stepVars, dirVars, cliVars, opVars>>

(***************************************************************************)
(* Bounds of the model.                                                    *)
(***************************************************************************)
MaxEntries == 2     \* key/value pairs in an input root mapping
MaxItems == 2       \* items in an array handed directly to MergeArraysUniquely
MaxCalls == 2       \* calls of GetYqPath one goroutine makes
MaxFiles == 2       \* entries of the embedded source tree

Goroutines == {1, 2, 3}

Runs == {1, 2}      \* two executions of the merge on the same two files

(***************************************************************************)
(* config.K8sYamlManifestsPreferredKeyOrder                                *)
(***************************************************************************)
K8sYamlManifestsPreferredKeyOrder ==
    <<"apiVersion", "kind", "metadata", "namespace", "spec", "resources",
      "images", "patches">>

\* Keys the modelled input files draw from: two of the preferred list (in the
\* list "kind" precedes "spec"), two that are not in it.
InputKeys == {"kind", "spec", "extra", "zeta"}

Range(s) == {s[i] : i \in 1..Len(s)}

Max(S) == CHOOSE x \in S : \A y \in S : y <= x

(***************************************************************************)
(* yaml.Node.  Kind 0 is the zero value of yaml.Kind: a node the parser    *)
(* never produces for a non-empty file but a caller of the exported merge  *)
(* functions can pass in, and the one the encoder refuses.                 *)
(***************************************************************************)
NilNode == 0

Node(kind, value, tag, style, content) ==
    [Kind |-> kind, Value |-> value, Tag |-> tag, Style |-> style,
     Content |-> content]

KnownKinds == {"DocumentNode", "SequenceNode", "MappingNode", "ScalarNode"}

\* Trees: what a file's text denotes, before it is laid out in the heap.
Scalar(v) == Node("ScalarNode", v, "!!str", "", <<>>)
Quoted(v) == Node("ScalarNode", v, "!!str", "SingleQuotedStyle", <<>>)
ZeroNode == Node("ZeroKind", "", "", "", <<>>)
SeqOf(items) == Node("SequenceNode", "", "!!seq", "", items)
MapOf(content) == Node("MappingNode", "", "!!map", "", content)
DocOf(root) == Node("DocumentNode", "", "", "", <<root>>)

(***************************************************************************)
(* yaml.Unmarshal(data, &rootNode): lays a tree out as heap nodes,         *)
(* children before their parent, every node freshly allocated.             *)
(***************************************************************************)
RECURSIVE Unmarshal(_, _), UnmarshalAll(_, _, _, _)
Unmarshal(h, tree) ==
    LET kids == UnmarshalAll(h, tree.Content, 1, <<>>)
        h1 == Append(kids.heap, [tree EXCEPT !.Content = kids.ids])
    IN [heap |-> h1, id |-> Len(h1)]

UnmarshalAll(h, trees, i, ids) ==
    IF i > Len(trees) THEN [heap |-> h, ids |-> ids]
    ELSE LET one == Unmarshal(h, trees[i])
         IN UnmarshalAll(one.heap, trees, i + 1, Append(ids, one.id))

(***************************************************************************)
(* yaml.NewEncoder(&buffer).Encode(node): the encoder fails on a node of   *)
(* unknown kind anywhere in the tree; otherwise the text depends on kind,  *)
(* value and style of every node of the tree (a flow rendering stands for  *)
(* the emitter's block text).                                              *)
(***************************************************************************)
RECURSIVE Encodable(_, _)
Encodable(h, n) ==
    /\ h[n].Kind \in KnownKinds
    /\ \A i \in 1..Len(h[n].Content) : Encodable(h, h[n].Content[i])

RECURSIVE Serialize(_, _), SerializeItems(_, _, _), SerializePairs(_, _, _)
Serialize(h, n) ==
    CASE h[n].Kind = "ScalarNode" ->
            IF h[n].Style = "SingleQuotedStyle"
            THEN "'" \o h[n].Value \o "'"
            ELSE h[n].Value
      [] h[n].Kind = "SequenceNode" ->
            "[" \o SerializeItems(h, h[n].Content, 1) \o "]"
      [] h[n].Kind = "MappingNode" ->
            "{" \o SerializePairs(h, h[n].Content, 1) \o "}"
      [] h[n].Kind = "DocumentNode" ->
            SerializeItems(h, h[n].Content, 1)
      [] OTHER -> ""

SerializeItems(h, content, i) ==
    IF i > Len(content) THEN ""
    ELSE Serialize(h, content[i])
         \o (IF i < Len(content) THEN ", " ELSE "")
         \o SerializeItems(h, content, i + 1)

SerializePairs(h, content, i) ==
    IF i + 1 > Len(content) THEN ""
    ELSE Serialize(h, content[i]) \o ": " \o Serialize(h, content[i + 1])
         \o (IF i + 2 < Len(content) THEN ", " ELSE "")
         \o SerializePairs(h, content, i + 2)

Encode(h, n) ==
    IF Encodable(h, n) THEN [err |-> FALSE, text |-> Serialize(h, n)]
    ELSE [err |-> TRUE, text |-> ""]

(***************************************************************************)
(* ConvertMappingNodeToMap: a node that is not a mapping gives an empty    *)
(* map; otherwise Content is read in pairs, a later pair with the same key *)
(* overwriting an earlier one, and a dangling last key is skipped.         *)
(***************************************************************************)
EmptyMap == [k \in {} |-> NilNode]

\* Mutant: the pair loop stops one pair early ("i+2 < len" for "i < len").
ConvertMappingNodeToMapStopsEarly(h, mappingNode) ==
    IF h[mappingNode].Kind # "MappingNode" THEN EmptyMap
    ELSE LET content == h[mappingNode].Content
             pairs == {i \in 1..Len(content) : i % 2 = 1 /\ i + 2 < Len(content)}
             keys == {h[content[i]].Value : i \in pairs}
         IN [key \in keys |->
                content[Max({i \in pairs : h[content[i]].Value = key}) + 1]]

ConvertMappingNodeToMap(h, mappingNode) ==
    IF h[mappingNode].Kind # "MappingNode" THEN EmptyMap
    ELSE LET content == h[mappingNode].Content
             pairs == {i \in 1..Len(content) : i % 2 = 1 /\ i + 1 <= Len(content)}
             keys == {h[content[i]].Value : i \in pairs}
         IN [key \in keys |->
                content[Max({i \in pairs : h[content[i]].Value = key}) + 1]]

(***************************************************************************)
(* MergeArraysUniquely.  appendIfNotSeen is its closure over mergedArray   *)
(* and seenSerializedValues; st carries heap, seen set and log count.      *)
(***************************************************************************)
\* Mutant: the serialized form is never recorded as seen.
appendIfNotSeenNeverRecorded(st, mergedArray, item) ==
    LET enc == Encode(st.heap, item)
    IN IF enc.err
       THEN [st EXCEPT !.logged = @ + 1]
       ELSE IF enc.text \in st.seen
            THEN st
            ELSE [st EXCEPT !.heap[mergedArray].Content = Append(@, item)]

appendIfNotSeen(st, mergedArray, item) ==
    LET enc == Encode(st.heap, item)
    IN IF enc.err
       THEN [st EXCEPT !.logged = @ + 1]          \* Logger("error", ...); return
       ELSE IF enc.text \in st.seen
            THEN st
            ELSE [st EXCEPT !.seen = @ \cup {enc.text},
                            !.heap[mergedArray].Content = Append(@, item)]

RECURSIVE AppendRange(_, _, _, _)
AppendRange(st, mergedArray, items, i) ==
    IF i > Len(items) THEN st
    ELSE AppendRange(appendIfNotSeen(st, mergedArray, items[i]),
                     mergedArray, items, i + 1)

\* Mutant: the merge appends into array1 instead of a new sequence node.
MergeArraysUniquelyInPlace(h, array1, array2) ==
    LET mergedArray == array1
        st0 == [heap |-> h, seen |-> {}, logged |-> 0]
        st1 == AppendRange(st0, mergedArray, st0.heap[array1].Content, 1)
        st2 == AppendRange(st1, mergedArray, st1.heap[array2].Content, 1)
    IN [heap |-> st2.heap, node |-> mergedArray, logged |-> st2.logged]

MergeArraysUniquely(h, array1, array2) ==
    LET h1 == Append(h, Node("SequenceNode", "", "", "", <<>>))
        mergedArray == Len(h1)
        st0 == [heap |-> h1, seen |-> {}, logged |-> 0]
        st1 == AppendRange(st0, mergedArray, st0.heap[array1].Content, 1)
        st2 == AppendRange(st1, mergedArray, st1.heap[array2].Content, 1)
    IN [heap |-> st2.heap, node |-> mergedArray, logged |-> st2.logged]

(***************************************************************************)
(* MergeValuesForKey                                                       *)
(***************************************************************************)
\* Mutant: two mappings are merged by joining their entries.
MergeValuesForKeyJoinsMappings(h, key, value1, value2) ==
    IF h[value1].Kind = "SequenceNode" /\ h[value2].Kind = "SequenceNode"
    THEN MergeArraysUniquely(h, value1, value2)
    ELSE IF h[value1].Kind = "MappingNode" /\ h[value2].Kind = "MappingNode"
         THEN LET h1 == Append(h, Node("MappingNode", "", "", "",
                                       h[value1].Content \o h[value2].Content))
              IN [heap |-> h1, node |-> Len(h1), logged |-> 0]
         ELSE [heap |-> h, node |-> value2, logged |-> 0]

MergeValuesForKey(h, key, value1, value2) ==
    IF h[value1].Kind = "SequenceNode" /\ h[value2].Kind = "SequenceNode"
    THEN MergeArraysUniquely(h, value1, value2)
    ELSE [heap |-> h, node |-> value2, logged |-> 0]

(***************************************************************************)
(* MergeMappingPreservingKeyOrder.  addKeyValue is its closure over        *)
(* mergedNode and seenKeys.  order1 and order2 are the orders in which the *)
(* two range loops over the Go maps visit the keys.                        *)
(***************************************************************************)
\* Mutant: the key is not recorded as seen.
addKeyValueNotRecorded(st, mergedNode, key, value) ==
    LET h1 == Append(st.heap, Node("ScalarNode", key, "!!str", "", <<>>))
    IN [st EXCEPT !.heap = [h1 EXCEPT ![mergedNode].Content = @ \o <<Len(h1), value>>]]

addKeyValue(st, mergedNode, key, value) ==
    LET h1 == Append(st.heap, Node("ScalarNode", key, "!!str", "", <<>>))
    IN [st EXCEPT !.heap = [h1 EXCEPT ![mergedNode].Content = @ \o <<Len(h1), value>>],
                  !.seenKeys = @ \cup {key}]

\* Mutant: a key of one map only is passed through MergeValuesForKey as well,
\* its value standing on both sides.
PreferredKeyStepMergesSingleSided(st, mergedNode, primaryMap, secondaryMap, key) ==
    IF key \in DOMAIN primaryMap \/ key \in DOMAIN secondaryMap
    THEN LET node1 == IF key \in DOMAIN primaryMap THEN primaryMap[key]
                      ELSE secondaryMap[key]
             node2 == IF key \in DOMAIN secondaryMap THEN secondaryMap[key]
                      ELSE primaryMap[key]
             m == MergeValuesForKey(st.heap, key, node1, node2)
         IN addKeyValue([st EXCEPT !.heap = m.heap, !.logged = @ + m.logged],
                        mergedNode, key, m.node)
    ELSE st

\* One iteration of "for _, key := range preferredKeyOrder".
PreferredKeyStep(st, mergedNode, primaryMap, secondaryMap, key) ==
    IF key \in DOMAIN primaryMap
    THEN IF key \in DOMAIN secondaryMap
         THEN LET m == MergeValuesForKey(st.heap, key, primaryMap[key], secondaryMap[key])
              IN addKeyValue([st EXCEPT !.heap = m.heap, !.logged = @ + m.logged],
                             mergedNode, key, m.node)
         ELSE addKeyValue(st, mergedNode, key, primaryMap[key])
    ELSE IF key \in DOMAIN secondaryMap
         THEN addKeyValue(st, mergedNode, key, secondaryMap[key])
         ELSE st

RECURSIVE PreferredKeyLoop(_, _, _, _, _, _)
PreferredKeyLoop(st, mergedNode, primaryMap, secondaryMap, preferredKeyOrder, i) ==
    IF i > Len(preferredKeyOrder) THEN st
    ELSE PreferredKeyLoop(
            PreferredKeyStep(st, mergedNode, primaryMap, secondaryMap,
                             preferredKeyOrder[i]),
            mergedNode, primaryMap, secondaryMap, preferredKeyOrder, i + 1)

\* Mutant: the loop over the remaining keys without its "!seenKeys[key]" test.
RECURSIVE AdditionalKeysLoopNoSeenTest(_, _, _, _, _)
AdditionalKeysLoopNoSeenTest(st, mergedNode, m, order, i) ==
    IF i > Len(order) THEN st
    ELSE AdditionalKeysLoopNoSeenTest(
            addKeyValue(st, mergedNode, order[i], m[order[i]]),
            mergedNode, m, order, i + 1)

\* "for key, node := range m { if !seenKeys[key] { addKeyValue(key, node) } }"
RECURSIVE AdditionalKeysLoop(_, _, _, _, _)
AdditionalKeysLoop(st, mergedNode, m, order, i) ==
    IF i > Len(order) THEN st
    ELSE AdditionalKeysLoop(
            IF order[i] \notin st.seenKeys
            THEN addKeyValue(st, mergedNode, order[i], m[order[i]])
            ELSE st,
            mergedNode, m, order, i + 1)

\* Mutant: the loop over the primary's keys runs before the preferred-key loop.
MergeMappingPrimaryKeysFirst(h, primaryMap, secondaryMap, order1, order2) ==
    LET preferredKeyOrder == K8sYamlManifestsPreferredKeyOrder
        h1 == Append(h, Node("MappingNode", "", "", "", <<>>))
        mergedNode == Len(h1)
        st0 == [heap |-> h1, seenKeys |-> {}, logged |-> 0]
        st1 == AdditionalKeysLoop(st0, mergedNode, primaryMap, order1, 1)
        st2 == PreferredKeyLoop(st1, mergedNode, primaryMap, secondaryMap,
                                preferredKeyOrder, 1)
        st3 == AdditionalKeysLoop(st2, mergedNode, secondaryMap, order2, 1)
    IN [heap |-> st3.heap, node |-> mergedNode, logged |-> st3.logged]

MergeMappingPreservingKeyOrder(h, primaryMap, secondaryMap, order1, order2) ==
    LET preferredKeyOrder == K8sYamlManifestsPreferredKeyOrder
        h1 == Append(h, Node("MappingNode", "", "", "", <<>>))
        mergedNode == Len(h1)
        st0 == [heap |-> h1, seenKeys |-> {}, logged |-> 0]
        st1 == PreferredKeyLoop(st0, mergedNode, primaryMap, secondaryMap,
                                preferredKeyOrder, 1)
        st2 == AdditionalKeysLoop(st1, mergedNode, primaryMap, order1, 1)
        st3 == AdditionalKeysLoop(st2, mergedNode, secondaryMap, order2, 1)
    IN [heap |-> st3.heap, node |-> mergedNode, logged |-> st3.logged]

(***************************************************************************)
(* MergeRootDocumentNodes                                                  *)
(***************************************************************************)
MergeRootDocumentNodes(h, docNode1, docNode2, order1, order2) ==
    IF h[docNode1].Kind # "DocumentNode" \/ h[docNode2].Kind # "DocumentNode"
    THEN [heap |-> h, node |-> NilNode, logged |-> 0,
          err |-> "Expected both nodes to be DocumentNode"]
    ELSE LET map1 == ConvertMappingNodeToMap(h, h[docNode1].Content[1])
             map2 == ConvertMappingNodeToMap(h, h[docNode2].Content[1])
             m == MergeMappingPreservingKeyOrder(h, map1, map2, order1, order2)
             h1 == Append(m.heap, Node("DocumentNode", "", "", "", <<m.node>>))
         IN [heap |-> h1, node |-> Len(h1), logged |-> m.logged, err |-> "nil"]

(***************************************************************************)
(* The orders a range loop over a Go map may take: every permutation of    *)
(* its keys.                                                               *)
(***************************************************************************)
Orders(S) ==
    {o \in [1..Cardinality(S) -> S] : \A i, j \in 1..Cardinality(S) : o[i] = o[j] => i = j}

RangeOrders(h, docNode) ==
    IF h[docNode].Kind = "DocumentNode"
    THEN Orders(DOMAIN ConvertMappingNodeToMap(h, h[docNode].Content[1]))
    ELSE {<<>>}

(***************************************************************************)
(* MergeYAMLFiles, from the two parsed root nodes on: merge, then encode   *)
(* the merged document.                                                    *)
(***************************************************************************)
MergeYAMLFiles(r) ==
    /\ pc[r] = "parsed"
    /\ \E order1 \in RangeOrders(heap, rootNode1[r]),
          order2 \in RangeOrders(heap, rootNode2[r]) :
         \E m \in {MergeRootDocumentNodes(heap, rootNode1[r], rootNode2[r],
                                          order1, order2)} :
           \E enc \in {IF m.err = "nil" THEN Encode(m.heap, m.node)
                       ELSE [err |-> TRUE, text |-> ""]} :
              /\ heap' = m.heap
              /\ mergedDoc' = [mergedDoc EXCEPT ![r] = m.node]
              /\ logged' = [logged EXCEPT ![r] = m.logged]
              /\ errMerge' = [errMerge EXCEPT ![r] =
                                IF m.err # "nil" THEN "Failed to merge YAML nodes"
                                ELSE IF enc.err THEN "Failed to encode merged YAML"
                                ELSE "nil"]
              /\ yamlOut' = [yamlOut EXCEPT ![r] = enc.text]
              /\ trace' = [trace EXCEPT ![r] =
                              IF m.err # "nil" THEN Append(@, "MergeRootDocumentNodes")
                              ELSE @ \o <<"MergeRootDocumentNodes", "Encode">>]
    /\ pc' = [pc EXCEPT ![r] = "done"]
    /\ UNCHANGED <<heap0, rootNode1, rootNode2, arg1, arg2, arrOut, arrOut2, disk>>
    /\ UNCHANGED restVars

(***************************************************************************)
(* Input files: the existing destination file (primary) and the embedded   *)
(* file (secondary).  Keys are drawn freely, duplicates included; the      *)
(* values of one file's entries are all the file's side of one value case. *)
(***************************************************************************)
KeyLists == UNION {[1..n -> InputKeys] : n \in 0..MaxEntries}

MappingDoc(keyList, value) ==
    DocOf(MapOf([i \in 1..(2 * Len(keyList)) |->
                    IF i % 2 = 1 THEN Scalar(keyList[(i + 1) \div 2]) ELSE value]))

ContainersOf(v) == MapOf(<<Scalar("containers"), SeqOf(<<Scalar(v)>>)>>)

\* <<value in the primary file, value in the secondary file>>
ValueCases ==
    { <<Scalar("1"), Scalar("3")>>,
      <<ContainersOf("x"), ContainersOf("y")>>,
      <<SeqOf(<<Scalar("a"), Scalar("b")>>), SeqOf(<<Scalar("b"), Scalar("c")>>)>>,
      <<SeqOf(<<Scalar("a"), ZeroNode>>), SeqOf(<<Scalar("b"), Scalar("c")>>)>>,
      <<Scalar("1"), SeqOf(<<Scalar("b"), Scalar("c")>>)>>,
      <<SeqOf(<<Scalar("a"), Scalar("b")>>), ContainersOf("y")>>,
      <<MapOf(<<Scalar("image"), Scalar("x")>>), MapOf(<<Scalar("tag"), Scalar("y")>>)>>,
      <<SeqOf(<<Scalar("a"), Scalar("a")>>), SeqOf(<<Scalar("b"), Scalar("b")>>)>> }

\* What a file holds at its root: a mapping with the given keys, a bare
\* scalar, a bare sequence, or nothing (an empty file: Unmarshal leaves the
\* root node at its zero value).
FileShapes ==
    {<<"mapping", kl>> : kl \in KeyLists}
    \cup {<<"scalar", <<>>>>, <<"sequence", <<>>>>, <<"empty", <<>>>>}

FileOf(shape, value) ==
    CASE shape[1] = "mapping" -> MappingDoc(shape[2], value)
      [] shape[1] = "scalar" -> DocOf(Scalar("x"))
      [] shape[1] = "sequence" -> DocOf(SeqOf(<<Scalar("a")>>))
      [] OTHER -> ZeroNode

\* No goroutine calls GetYqPath.
NoYq ==
    /\ findYqOnce = "new"
    /\ foundYqPath = ""
    /\ tmpDir = {}
    /\ yqCalls = [SearchForYq |-> 0, CreateTemp |-> 0]
    /\ gpc = [g \in Goroutines |-> "end"]
    /\ yqResults = [g \in Goroutines |-> <<>>]
    /\ exited = FALSE

\* No merge runs step by step.
IdleFrame ==
    [phase |-> "enter", i |-> 1, mergedNode |-> NilNode, seenKeys |-> {}, logged |-> 0,
     map1 |-> <<>>, map2 |-> <<>>, order1 |-> <<>>, order2 |-> <<>>]

NoSteps == frame = [r \in Runs |-> IdleFrame]

\* CopyAndMergeYAMLDir is not called.
NoDir ==
    /\ embedded = <<>>
    /\ target = <<>>
    /\ target0 = <<>>
    /\ walkPos = 1
    /\ walkErr = "nil"
    /\ tmpEmbedFiles = <<>>

\* config.Config(): the built-in defaults.
Config == [DefaultGCPProject |-> "change-here"]

NoCli ==
    /\ osArgs = [command |-> "pires-cli", vpnCheckConnection |-> "unset", gcpProject |-> "unset"]
    /\ environ = "unset"
    /\ configFiles = [specific |-> "missing", fallback |-> "missing"]
    /\ mainPc = "off"
    /\ Properties = Config
    /\ VPNCheckConnection = FALSE
    /\ issued = <<>>

\* None of the file and cloud operations is called.
NoOps ==
    /\ fsys = [dir |-> "dir", file |-> "file"]
    /\ modCalls = <<>>
    /\ cloud = {}
    /\ gcpCalls = <<>>

RestIdle == NoYq /\ NoSteps /\ NoDir /\ NoCli /\ NoOps

\* The files are already read and parsed, or the merge functions are called
\* directly on nodes.
NoFiles ==
    /\ disk = [r \in Runs |-> <<>>]
    /\ trace = [r \in Runs |-> <<>>]
    /\ RestIdle

InitRest ==
    /\ heap0 = heap
    /\ mergedDoc = [r \in Runs |-> NilNode]
    /\ errMerge = [r \in Runs |-> "nil"]
    /\ yamlOut = [r \in Runs |-> ""]
    /\ logged = [r \in Runs |-> 0]
    /\ arg1 = NilNode /\ arg2 = NilNode /\ arrOut = NilNode /\ arrOut2 = NilNode
    /\ NoFiles

\* One execution: MergeYAMLFiles has parsed the two files.
Init ==
    /\ \E shape1 \in FileShapes, shape2 \in FileShapes, vc \in ValueCases :
         \E p1 \in {Unmarshal(<<>>, FileOf(shape1, vc[1]))} :
           \E s1 \in {Unmarshal(p1.heap, FileOf(shape2, vc[2]))} :
              /\ heap = s1.heap
              /\ rootNode1 = <<p1.id, NilNode>>
              /\ rootNode2 = <<s1.id, NilNode>>
    /\ pc = <<"parsed", "idle">>
    /\ InitRest

\* Two executions on the same two files, each parsing them into nodes of its own.
InitRuns ==
    /\ \E shape1 \in FileShapes, shape2 \in FileShapes, vc \in ValueCases :
         \E p1 \in {Unmarshal(<<>>, FileOf(shape1, vc[1]))} :
           \E s1 \in {Unmarshal(p1.heap, FileOf(shape2, vc[2]))} :
             \E p2 \in {Unmarshal(s1.heap, FileOf(shape1, vc[1]))} :
               \E s2 \in {Unmarshal(p2.heap, FileOf(shape2, vc[2]))} :
                  /\ heap = s2.heap
                  /\ rootNode1 = <<p1.id, p2.id>>
                  /\ rootNode2 = <<s1.id, s2.id>>
    /\ pc = <<"parsed", "parsed">>
    /\ InitRest

Next == \E r \in Runs : MergeYAMLFiles(r)

Spec == Init /\ [][Next]_vars

SpecRuns == InitRuns /\ [][Next]_vars

(***************************************************************************)
(* MergeYAMLFiles, up to the two parsed root nodes: os.ReadFile of the     *)
(* first file, of the second, yaml.Unmarshal of the first, of the second;  *)
(* the first of the four that fails ends the call with its error wrapped   *)
(* in a message that names the file.                                       *)
(***************************************************************************)
DiskFile(path, readErr, parseErr, tree) ==
    [path |-> path, readErr |-> readErr, parseErr |-> parseErr, tree |-> tree]

\* Mutant: the result of the second yaml.Unmarshal is not looked at.
ReadAndParseSecondUnchecked(file1, file2) ==
    IF file1.readErr # "nil"
    THEN [err |-> "Could not read file " \o file1.path \o ": " \o file1.readErr,
          calls |-> <<"ReadFile " \o file1.path>>]
    ELSE IF file2.readErr # "nil"
    THEN [err |-> "Could not read file " \o file2.path \o ": " \o file2.readErr,
          calls |-> <<"ReadFile " \o file1.path, "ReadFile " \o file2.path>>]
    ELSE IF file1.parseErr # "nil"
    THEN [err |-> "Failed to parse YAML from " \o file1.path \o ": " \o file1.parseErr,
          calls |-> <<"ReadFile " \o file1.path, "ReadFile " \o file2.path,
                      "Unmarshal " \o file1.path>>]
    ELSE [err |-> "nil",
          calls |-> <<"ReadFile " \o file1.path, "ReadFile " \o file2.path,
                      "Unmarshal " \o file1.path, "Unmarshal " \o file2.path>>]

ReadAndParse(file1, file2) ==
    IF file1.readErr # "nil"
    THEN [err |-> "Could not read file " \o file1.path \o ": " \o file1.readErr,
          calls |-> <<"ReadFile " \o file1.path>>]
    ELSE IF file2.readErr # "nil"
    THEN [err |-> "Could not read file " \o file2.path \o ": " \o file2.readErr,
          calls |-> <<"ReadFile " \o file1.path, "ReadFile " \o file2.path>>]
    ELSE IF file1.parseErr # "nil"
    THEN [err |-> "Failed to parse YAML from " \o file1.path \o ": " \o file1.parseErr,
          calls |-> <<"ReadFile " \o file1.path, "ReadFile " \o file2.path,
                      "Unmarshal " \o file1.path>>]
    ELSE IF file2.parseErr # "nil"
    THEN [err |-> "Failed to parse YAML from " \o file2.path \o ": " \o file2.parseErr,
          calls |-> <<"ReadFile " \o file1.path, "ReadFile " \o file2.path,
                      "Unmarshal " \o file1.path, "Unmarshal " \o file2.path>>]
    ELSE [err |-> "nil",
          calls |-> <<"ReadFile " \o file1.path, "ReadFile " \o file2.path,
                      "Unmarshal " \o file1.path, "Unmarshal " \o file2.path>>]

MergeYAMLFilesReadAndParse(r) ==
    /\ pc[r] = "start"
    /\ \E o \in {ReadAndParse(disk[r][1], disk[r][2])} :
          /\ trace' = [trace EXCEPT ![r] = @ \o o.calls]
          /\ IF o.err # "nil"
             THEN /\ errMerge' = [errMerge EXCEPT ![r] = o.err]
                  /\ yamlOut' = [yamlOut EXCEPT ![r] = ""]
                  /\ pc' = [pc EXCEPT ![r] = "done"]
                  /\ UNCHANGED <<heap, heap0, rootNode1, rootNode2>>
             ELSE \E p1 \in {Unmarshal(heap, disk[r][1].tree)} :
                    \E s1 \in {Unmarshal(p1.heap, disk[r][2].tree)} :
                       /\ heap' = s1.heap
                       /\ heap0' = s1.heap
                       /\ rootNode1' = [rootNode1 EXCEPT ![r] = p1.id]
                       /\ rootNode2' = [rootNode2 EXCEPT ![r] = s1.id]
                       /\ pc' = [pc EXCEPT ![r] = "parsed"]
                       /\ UNCHANGED <<errMerge, yamlOut>>
    /\ UNCHANGED <<mergedDoc, logged, arg1, arg2, arrOut, arrOut2, disk>>
    /\ UNCHANGED restVars

\* What stands at a path: nothing that can be read, text that is not YAML, or
\* a file of one of the shapes.
DiskShapes == FileShapes \cup {<<"unreadable", <<>>>>, <<"malformed", <<>>>>}

DiskFileOf(path, shape, value) ==
    CASE shape[1] = "unreadable" ->
            DiskFile(path, "no such file or directory", "nil", ZeroNode)
      [] shape[1] = "malformed" ->
            DiskFile(path, "nil", "yaml: did not find expected key", ZeroNode)
      [] OTHER -> DiskFile(path, "nil", "nil", FileOf(shape, value))

InitFiles ==
    /\ \E shape1 \in DiskShapes, shape2 \in DiskShapes, vc \in ValueCases :
          disk = <<  <<DiskFileOf("dest.yaml", shape1, vc[1]),
                       DiskFileOf("embed.yaml", shape2, vc[2])>>,  <<>>  >>
    /\ trace = [r \in Runs |-> <<>>]
    /\ heap = <<>> /\ heap0 = <<>>
    /\ rootNode1 = [r \in Runs |-> NilNode]
    /\ rootNode2 = [r \in Runs |-> NilNode]
    /\ pc = <<"start", "idle">>
    /\ mergedDoc = [r \in Runs |-> NilNode]
    /\ errMerge = [r \in Runs |-> "nil"]
    /\ yamlOut = [r \in Runs |-> ""]
    /\ logged = [r \in Runs |-> 0]
    /\ arg1 = NilNode /\ arg2 = NilNode /\ arrOut = NilNode /\ arrOut2 = NilNode
    /\ RestIdle

NextFiles == \E r \in Runs : MergeYAMLFilesReadAndParse(r) \/ MergeYAMLFiles(r)

SpecFiles == InitFiles /\ [][NextFiles]_vars

(***************************************************************************)
(* Direct calls of MergeArraysUniquely: on two arrays, and then on its own *)
(* result twice over.                                                      *)
(***************************************************************************)
ArrayItems == {Scalar("a"), Quoted("a"), Scalar("b"), ZeroNode}

ItemLists == UNION {[1..n -> ArrayItems] : n \in 0..MaxItems}

InitArrays ==
    /\ \E items1 \in ItemLists, items2 \in ItemLists, sameNode \in BOOLEAN :
         \E a1 \in {Unmarshal(<<>>, SeqOf(items1))} :
           \E a2 \in {Unmarshal(a1.heap, SeqOf(items2))} :
              /\ heap = a2.heap
              /\ heap0 = a2.heap
              /\ arg1 = a1.id
              /\ arg2 = IF sameNode THEN a1.id ELSE a2.id
    /\ arrOut = NilNode /\ arrOut2 = NilNode
    /\ rootNode1 = [r \in Runs |-> NilNode]
    /\ rootNode2 = [r \in Runs |-> NilNode]
    /\ pc = [r \in Runs |-> "idle"]
    /\ mergedDoc = [r \in Runs |-> NilNode]
    /\ errMerge = [r \in Runs |-> "nil"]
    /\ yamlOut = [r \in Runs |-> ""]
    /\ logged = [r \in Runs |-> 0]
    /\ NoFiles

CallMergeArrays ==
    /\ arrOut = NilNode
    /\ \E m \in {MergeArraysUniquely(heap, arg1, arg2)} :
          /\ heap' = m.heap
          /\ arrOut' = m.node
          /\ logged' = [logged EXCEPT ![1] = @ + m.logged]
    /\ UNCHANGED <<heap0, rootNode1, rootNode2, pc, mergedDoc, errMerge, yamlOut,
                   arg1, arg2, arrOut2>>
    /\ UNCHANGED <<fileVars, restVars>>

CallMergeArraysAgain ==
    /\ arrOut # NilNode
    /\ arrOut2 = NilNode
    /\ \E m \in {MergeArraysUniquely(heap, arrOut, arrOut)} :
          /\ heap' = m.heap
          /\ arrOut2' = m.node
          /\ logged' = [logged EXCEPT ![1] = @ + m.logged]
    /\ UNCHANGED <<heap0, rootNode1, rootNode2, pc, mergedDoc, errMerge, yamlOut,
                   arg1, arg2, arrOut>>
    /\ UNCHANGED <<fileVars, restVars>>

NextArrays == CallMergeArrays \/ CallMergeArraysAgain

SpecArrays == InitArrays /\ [][NextArrays]_vars

(***************************************************************************)
(* GetYqPath and SearchForYq.  Any number of goroutines call GetYqPath;    *)
(* findYqOnce.Do lets the first one run SearchForYq and holds the others   *)
(* until it is over.  common.Logger("fatal", ...) logs and ends the        *)
(* process.  The outcomes of the file system calls are the environment's.  *)
(***************************************************************************)
NoMerge ==
    /\ heap = <<>> /\ heap0 = <<>>
    /\ rootNode1 = [r \in Runs |-> NilNode]
    /\ rootNode2 = [r \in Runs |-> NilNode]
    /\ pc = [r \in Runs |-> "idle"]
    /\ mergedDoc = [r \in Runs |-> NilNode]
    /\ errMerge = [r \in Runs |-> "nil"]
    /\ yamlOut = [r \in Runs |-> ""]
    /\ logged = [r \in Runs |-> 0]
    /\ arg1 = NilNode /\ arg2 = NilNode /\ arrOut = NilNode /\ arrOut2 = NilNode
    /\ disk = [r \in Runs |-> <<>>]
    /\ trace = [r \in Runs |-> <<>>]

\* os.CreateTemp("", "yq-*"): a name no earlier call has returned.
TempName(n) == CASE n = 0 -> "/tmp/yq-1" [] n = 1 -> "/tmp/yq-2" [] OTHER -> "/tmp/yq-3"

\* Mutant: a test of foundYqPath in place of findYqOnce.Do.
OnceDoTestsPathOnly(g) ==
    /\ ~exited
    /\ gpc[g] = "call"
    /\ gpc' = [gpc EXCEPT ![g] = IF foundYqPath = "" THEN "search" ELSE "return"]
    /\ UNCHANGED <<findYqOnce, foundYqPath, tmpDir, yqCalls, yqResults, exited>>
    /\ UNCHANGED notYqVars

\* findYqOnce.Do(func() { SearchForYq() }), up to the call of the function or
\* the wait for the goroutine that is in it.
OnceDo(g) ==
    /\ ~exited
    /\ gpc[g] = "call"
    /\ CASE findYqOnce = "new" ->
              /\ findYqOnce' = "running"
              /\ gpc' = [gpc EXCEPT ![g] = "search"]
         [] findYqOnce = "running" ->
              /\ gpc' = [gpc EXCEPT ![g] = "wait"]
              /\ UNCHANGED findYqOnce
         [] OTHER ->
              /\ gpc' = [gpc EXCEPT ![g] = "return"]
              /\ UNCHANGED findYqOnce
    /\ UNCHANGED <<foundYqPath, tmpDir, yqCalls, yqResults, exited>>
    /\ UNCHANGED notYqVars

\* A goroutine held in findYqOnce.Do goes on once the function has returned.
OnceWait(g) ==
    /\ ~exited
    /\ gpc[g] = "wait"
    /\ findYqOnce = "done"
    /\ gpc' = [gpc EXCEPT ![g] = "return"]
    /\ UNCHANGED <<findYqOnce, foundYqPath, tmpDir, yqCalls, yqResults, exited>>
    /\ UNCHANGED notYqVars

\* SearchForYq, lines 49-69: clear the path, read the embedded binary, create
\* the temporary file.
SearchForYqCreate(g) ==
    /\ ~exited
    /\ gpc[g] = "search"
    /\ foundYqPath' = ""
    /\ \E outcome \in {"read fails", "binary empty", "create fails", "ok"} :
          IF outcome = "ok"
          THEN /\ tmpDir' = tmpDir \cup {TempName(yqCalls.CreateTemp)}
               /\ yqCalls' = [yqCalls EXCEPT !.SearchForYq = @ + 1, !.CreateTemp = @ + 1]
               /\ gpc' = [gpc EXCEPT ![g] = TempName(yqCalls.CreateTemp)]
               /\ UNCHANGED exited
          ELSE /\ exited' = TRUE
               /\ yqCalls' = [yqCalls EXCEPT !.SearchForYq = @ + 1]
               /\ UNCHANGED <<tmpDir, gpc>>
    /\ UNCHANGED <<findYqOnce, yqResults>>
    /\ UNCHANGED notYqVars

\* SearchForYq, lines 71-89: write, close, chmod, store the path; then
\* findYqOnce.Do returns.  gpc[g] holds tempFilePath.
SearchForYqFinish(g) ==
    /\ ~exited
    /\ gpc[g] \in tmpDir
    /\ \E outcome \in {"write fails", "close fails", "chmod fails", "ok"} :
          CASE outcome = "ok" ->
                 /\ foundYqPath' = gpc[g]
                 /\ findYqOnce' = "done"
                 /\ gpc' = [gpc EXCEPT ![g] = "return"]
                 /\ UNCHANGED <<tmpDir, exited>>
            [] outcome = "close fails" ->
                 /\ exited' = TRUE
                 /\ UNCHANGED <<foundYqPath, findYqOnce, gpc, tmpDir>>
            [] OTHER ->
                 /\ tmpDir' = tmpDir \ {gpc[g]}
                 /\ exited' = TRUE
                 /\ UNCHANGED <<foundYqPath, findYqOnce, gpc>>
    /\ UNCHANGED <<yqCalls, yqResults>>
    /\ UNCHANGED notYqVars

\* "return foundYqPath"; the goroutine may call GetYqPath again.
GetYqPathReturn(g) ==
    /\ ~exited
    /\ gpc[g] = "return"
    /\ yqResults' = [yqResults EXCEPT ![g] = Append(@, foundYqPath)]
    /\ gpc' = [gpc EXCEPT ![g] = IF Len(yqResults[g]) + 1 < MaxCalls THEN "call" ELSE "end"]
    /\ UNCHANGED <<findYqOnce, foundYqPath, tmpDir, yqCalls, exited>>
    /\ UNCHANGED notYqVars

InitYq ==
    /\ findYqOnce = "new"
    /\ foundYqPath = ""
    /\ tmpDir = {}
    /\ yqCalls = [SearchForYq |-> 0, CreateTemp |-> 0]
    /\ gpc \in [Goroutines -> {"call", "end"}]
    /\ yqResults = [g \in Goroutines |-> <<>>]
    /\ exited = FALSE
    /\ NoMerge
    /\ NoSteps
    /\ NoDir
    /\ NoCli
    /\ NoOps

NextYq ==
    \E g \in Goroutines :
        \/ OnceDo(g)
        \/ OnceWait(g)
        \/ SearchForYqCreate(g)
        \/ SearchForYqFinish(g)
        \/ GetYqPathReturn(g)

SpecYq == InitYq /\ [][NextYq]_vars

(***************************************************************************)
(* Merges that run at the same time, each on documents of its own.  A run  *)
(* takes one step at a time: the entry of MergeRootDocumentNodes up to the *)
(* allocation of mergedNode, one iteration of a loop of                    *)
(* MergeMappingPreservingKeyOrder, the return and the encoding.  The heap  *)
(* is the one thing the runs share; seenKeys, mergedNode and the two maps  *)
(* are locals of a run.                                                    *)
(***************************************************************************)
\* Mutant: seenKeys is a package-level map that all runs write to.
StepStateSharedSeenKeys(r) ==
    [heap |-> heap, seenKeys |-> UNION {frame[q].seenKeys : q \in Runs},
     logged |-> frame[r].logged]

\* The heap and the locals an iteration of run r works on.
StepState(r) ==
    [heap |-> heap, seenKeys |-> frame[r].seenKeys, logged |-> frame[r].logged]

\* The loop a run is in once the loop "phase" is over, empty loops skipped.
AfterLoop(fr, phase) ==
    IF phase = "preferred" /\ Len(fr.order1) > 0 THEN "primary"
    ELSE IF phase \in {"preferred", "primary"} /\ Len(fr.order2) > 0 THEN "secondary"
    ELSE "return"

MergeEnter(r) ==
    /\ pc[r] = "parsed"
    /\ frame[r].phase = "enter"
    /\ trace' = [trace EXCEPT ![r] = Append(@, "MergeRootDocumentNodes")]
    /\ IF heap[rootNode1[r]].Kind # "DocumentNode" \/ heap[rootNode2[r]].Kind # "DocumentNode"
       THEN /\ errMerge' = [errMerge EXCEPT ![r] = "Failed to merge YAML nodes"]
            /\ pc' = [pc EXCEPT ![r] = "done"]
            /\ UNCHANGED <<heap, frame>>
       ELSE /\ heap' = Append(heap, Node("MappingNode", "", "", "", <<>>))
            /\ frame' = [frame EXCEPT ![r] =
                  [@ EXCEPT !.phase = "preferred",
                            !.mergedNode = Len(heap) + 1,
                            !.map1 = ConvertMappingNodeToMap(heap, heap[rootNode1[r]].Content[1]),
                            !.map2 = ConvertMappingNodeToMap(heap, heap[rootNode2[r]].Content[1])]]
            /\ UNCHANGED <<errMerge, pc>>
    /\ UNCHANGED <<heap0, rootNode1, rootNode2, mergedDoc, yamlOut, logged,
                   arg1, arg2, arrOut, arrOut2, disk, yqVars, dirVars, cliVars, opVars>>

MergePreferredKey(r) ==
    /\ pc[r] = "parsed"
    /\ frame[r].phase = "preferred"
    /\ \E st \in {PreferredKeyStep(StepState(r), frame[r].mergedNode, frame[r].map1,
                                    frame[r].map2,
                                    K8sYamlManifestsPreferredKeyOrder[frame[r].i])} :
          /\ heap' = st.heap
          /\ frame' = [frame EXCEPT ![r] =
                [@ EXCEPT !.seenKeys = st.seenKeys,
                          !.logged = st.logged,
                          !.i = IF @ < Len(K8sYamlManifestsPreferredKeyOrder) THEN @ + 1 ELSE 1,
                          !.phase = IF frame[r].i < Len(K8sYamlManifestsPreferredKeyOrder)
                                    THEN "preferred" ELSE AfterLoop(frame[r], "preferred")]]
    /\ UNCHANGED <<heap0, rootNode1, rootNode2, pc, mergedDoc, errMerge, yamlOut, logged,
                   arg1, arg2, arrOut, arrOut2, fileVars, yqVars, dirVars, cliVars, opVars>>

MergeAdditionalKey(r) ==
    /\ pc[r] = "parsed"
    /\ frame[r].phase \in {"primary", "secondary"}
    /\ LET m == IF frame[r].phase = "primary" THEN frame[r].map1 ELSE frame[r].map2
           order == IF frame[r].phase = "primary" THEN frame[r].order1 ELSE frame[r].order2
       IN \E st \in {AdditionalKeysLoop(StepState(r), frame[r].mergedNode, m,
                                        <<order[frame[r].i]>>, 1)} :
             /\ heap' = st.heap
             /\ frame' = [frame EXCEPT ![r] =
                   [@ EXCEPT !.seenKeys = st.seenKeys,
                             !.i = IF @ < Len(order) THEN @ + 1 ELSE 1,
                             !.phase = IF frame[r].i < Len(order) THEN @
                                       ELSE AfterLoop(frame[r], frame[r].phase)]]
    /\ UNCHANGED <<heap0, rootNode1, rootNode2, pc, mergedDoc, errMerge, yamlOut, logged,
                   arg1, arg2, arrOut, arrOut2, fileVars, yqVars, dirVars, cliVars, opVars>>

MergeReturn(r) ==
    /\ pc[r] = "parsed"
    /\ frame[r].phase = "return"
    /\ \E h1 \in {Append(heap, Node("DocumentNode", "", "", "", <<frame[r].mergedNode>>))} :
         \E enc \in {Encode(h1, Len(h1))} :
            /\ heap' = h1
            /\ mergedDoc' = [mergedDoc EXCEPT ![r] = Len(h1)]
            /\ logged' = [logged EXCEPT ![r] = frame[r].logged]
            /\ errMerge' = [errMerge EXCEPT ![r] =
                              IF enc.err THEN "Failed to encode merged YAML" ELSE "nil"]
            /\ yamlOut' = [yamlOut EXCEPT ![r] = enc.text]
    /\ trace' = [trace EXCEPT ![r] = Append(@, "Encode")]
    /\ pc' = [pc EXCEPT ![r] = "done"]
    /\ frame' = [frame EXCEPT ![r].phase = "done"]
    /\ UNCHANGED <<heap0, rootNode1, rootNode2, arg1, arg2, arrOut, arrOut2, disk, yqVars, dirVars, cliVars, opVars>>

\* The documents the concurrent runs are given: a shared key and keys of one
\* side only; a bare root; an empty file.
StepShapes ==
    { << <<"mapping", <<"kind", "extra">>>>, <<"mapping", <<"kind", "zeta">>>> >>,
      << <<"scalar", <<>>>>, <<"mapping", <<"spec", "kind">>>> >>,
      << <<"mapping", <<"kind">>>>, <<"empty", <<>>>> >> }

StepValueCases ==
    {vc \in ValueCases : vc[1].Kind = "SequenceNode" /\ vc[2].Kind = "SequenceNode"}

InitSteps ==
    /\ \E sh \in [Runs -> StepShapes], vc \in StepValueCases :
         \E p1 \in {Unmarshal(<<>>, FileOf(sh[1][1], vc[1]))} :
           \E s1 \in {Unmarshal(p1.heap, FileOf(sh[1][2], vc[2]))} :
             \E p2 \in {Unmarshal(s1.heap, FileOf(sh[2][1], vc[1]))} :
               \E s2 \in {Unmarshal(p2.heap, FileOf(sh[2][2], vc[2]))} :
                  /\ heap = s2.heap
                  /\ rootNode1 = <<p1.id, p2.id>>
                  /\ rootNode2 = <<s1.id, s2.id>>
                  /\ \E o1 \in [Runs -> UNION {RangeOrders(s2.heap, n) : n \in {p1.id, p2.id}}],
                        o2 \in [Runs -> UNION {RangeOrders(s2.heap, n) : n \in {s1.id, s2.id}}] :
                        /\ \A r \in Runs : /\ o1[r] \in RangeOrders(s2.heap, <<p1.id, p2.id>>[r])
                                           /\ o2[r] \in RangeOrders(s2.heap, <<s1.id, s2.id>>[r])
                        /\ frame = [r \in Runs |->
                                      [IdleFrame EXCEPT !.order1 = o1[r], !.order2 = o2[r]]]
    /\ heap0 = heap
    /\ pc = [r \in Runs |-> "parsed"]
    /\ mergedDoc = [r \in Runs |-> NilNode]
    /\ errMerge = [r \in Runs |-> "nil"]
    /\ yamlOut = [r \in Runs |-> ""]
    /\ logged = [r \in Runs |-> 0]
    /\ arg1 = NilNode /\ arg2 = NilNode /\ arrOut = NilNode /\ arrOut2 = NilNode
    /\ disk = [r \in Runs |-> <<>>]
    /\ trace = [r \in Runs |-> <<>>]
    /\ NoYq
    /\ NoDir
    /\ NoCli
    /\ NoOps

NextSteps ==
    \E r \in Runs :
        \/ MergeEnter(r)
        \/ MergePreferredKey(r)
        \/ MergeAdditionalKey(r)
        \/ MergeReturn(r)

SpecSteps == InitSteps /\ [][NextSteps]_vars

(***************************************************************************)
(* CopyAndMergeYAMLDir.  fs.WalkDir calls the function once per entry of   *)
(* the embedded tree and stops at the first error it returns.  A file name *)
(* is the sequence of its parts between the dots ("a.patch.yaml" is        *)
(* <<"a", "patch", "yaml">>), so that a suffix test is a test on the last  *)
(* parts.  A file's content is its text, or for YAML the tree it denotes;   *)
(* readErr is what os.ReadFile answers on a file that may not be read.     *)
(***************************************************************************)
Content(text, parseErr, tree) ==
    [readErr |-> "nil", text |-> text, parseErr |-> parseErr, tree |-> tree]

\* os.WriteFile(path, data, perm) over what stands at the path: the mode of
\* an existing file is kept.
WriteFile(old, data) == [data EXCEPT !.readErr = old.readErr]

NoContent == Content("", "nil", ZeroNode)

\* strings.HasSuffix(name, "." + suffix parts joined by dots)
HasSuffix(name, suffix) ==
    /\ Len(name) > Len(suffix)
    /\ SubSeq(name, Len(name) - Len(suffix) + 1, Len(name)) = suffix

HasAnySuffix(name, suffixes) == \E i \in 1..Len(suffixes) : HasSuffix(name, suffixes[i])

\* Mutant: patch files are not told apart.
IsYAMLFileNoPatchTest(filename) ==
    HasAnySuffix(filename, << <<"yaml">>, <<"yml">> >>)

IsYAMLFile(filename) ==
    IF HasAnySuffix(filename, << <<"patch", "yaml">>, <<"patch", "yml">> >>)
    THEN FALSE
    ELSE HasAnySuffix(filename, << <<"yaml">>, <<"yml">> >>)

\* os.Stat succeeds and the path is not a directory.
FileExists(dest) == dest.kind # "missing" /\ dest.kind # "dir"

\* Mutant: a failed merge is returned as an empty text without an error.
MergeYAMLFilesReturnHidesError(m) ==
    { [err |-> IF m.err = "nil" /\ enc.err THEN "Failed to encode merged YAML" ELSE "nil",
       text |-> enc.text] :
      enc \in {IF m.err = "nil" THEN Encode(m.heap, m.node)
               ELSE [err |-> TRUE, text |-> ""]} }

\* The value MergeYAMLFiles returns once MergeRootDocumentNodes has returned m.
MergeYAMLFilesReturn(m) ==
    { [err |-> IF m.err # "nil" THEN "Failed to merge YAML nodes"
               ELSE IF enc.err THEN "Failed to encode merged YAML"
               ELSE "nil",
       text |-> enc.text] :
      enc \in {IF m.err = "nil" THEN Encode(m.heap, m.node)
               ELSE [err |-> TRUE, text |-> ""]} }

\* MergeYAMLFiles from the two parsed documents on, the runtime choosing the
\* order of the two range loops.
MergeYAMLFilesParsed(h, n1, n2) ==
    UNION { MergeYAMLFilesReturn(m) :
            m \in { MergeRootDocumentNodes(h, n1, n2, o[1], o[2]) :
                    o \in RangeOrders(h, n1) \X RangeOrders(h, n2) } }

\* MergeYAMLFiles(filePath1, filePath2) as a whole: what it may return.
MergeYAMLFilesResults(file1, file2) ==
    UNION { IF o.err # "nil" THEN {[err |-> o.err, text |-> ""]}
            ELSE UNION { UNION { MergeYAMLFilesParsed(s1.heap, p1.id, s1.id) :
                                 s1 \in {Unmarshal(p1.heap, file2.tree)} } :
                         p1 \in {Unmarshal(<<>>, file1.tree)} } :
            o \in {ReadAndParse(file1, file2)} }

AsDiskFile(path, content) == DiskFile(path, content.readErr, content.parseErr, content.tree)

\* os.CreateTemp("", "embed-*.yaml") for the entry at position entry.
CreateTemp(temps, entry) == Append(temps, [entry |-> entry, exists |-> TRUE])

\* Mutant: the file is removed only when the callback returns nil.
DeferredRemoveOnSuccess(temps, returned) ==
    IF returned = "nil" THEN [temps EXCEPT ![Len(temps)].exists = FALSE] ELSE temps

\* The deferred function: tmpEmbedFile.Close() and os.Remove(tmpEmbedFile.Name()),
\* run whatever the callback returns.
DeferredRemove(temps, returned) == [temps EXCEPT ![Len(temps)].exists = FALSE]

\* The callback of fs.WalkDir on the entry at walkPos.
CopyAndMergeYAMLDirVisit ==
    /\ walkErr = "nil"
    /\ walkPos <= Len(embedded)
    /\ LET e == embedded[walkPos]
           dest == target[walkPos]
       IN IF e.isDir
          THEN \* return os.MkdirAll(destPath, config.PermissionDir)
               IF dest.kind = "file"
               THEN /\ walkErr' = "mkdir: not a directory"
                    /\ UNCHANGED <<target, walkPos>>
               ELSE /\ target' = [target EXCEPT ![walkPos] = [kind |-> "dir", content |-> NoContent]]
                    /\ walkPos' = walkPos + 1
                    /\ UNCHANGED walkErr
          ELSE IF IsYAMLFile(e.name) /\ FileExists(dest)
          THEN \E io \in {"ok", "CreateTemp fails", "Write fails", "WriteFile fails"},
                  merged \in MergeYAMLFilesResults(AsDiskFile("dest", dest.content),
                                                   AsDiskFile("embed-*.yaml", e.content)) :
                  \E returned \in {CASE io = "CreateTemp fails" ->
                                         "Failed to create temporary file for embedded YAML"
                                    [] io = "Write fails" ->
                                         "Failed to write embedded YAML to temporary file"
                                    [] io \in {"ok", "WriteFile fails"} /\ merged.err # "nil" ->
                                         "Failed to merge"
                                    [] io = "WriteFile fails" /\ merged.err = "nil" ->
                                         "Failed to write merged YAML"
                                    [] OTHER -> "nil"} :
                     /\ tmpEmbedFiles' = IF io = "CreateTemp fails" THEN tmpEmbedFiles
                                         ELSE DeferredRemove(CreateTemp(tmpEmbedFiles, walkPos),
                                                             returned)
                     /\ IF returned = "nil"
                        THEN /\ target' = [target EXCEPT ![walkPos].content =
                                              WriteFile(dest.content,
                                                        Content(merged.text, "nil", ZeroNode))]
                             /\ walkPos' = walkPos + 1
                             /\ UNCHANGED walkErr
                        ELSE /\ walkErr' = returned
                             /\ UNCHANGED walkPos
                             /\ IF returned = "Failed to write merged YAML"
                                THEN \E left \in {dest.content,
                                                  WriteFile(dest.content, NoContent)} :
                                        target' = [target EXCEPT ![walkPos].content = left]
                                ELSE UNCHANGED target
          ELSE \E io \in {"ok", "WriteFile fails"} :
                  IF dest.kind = "dir"
                  THEN /\ walkErr' = "Error writing file"
                       /\ UNCHANGED <<target, walkPos>>
                  ELSE IF io = "WriteFile fails"
                  THEN /\ walkErr' = "Error writing file"
                       /\ \E left \in {dest, [kind |-> "file",
                                              content |-> WriteFile(dest.content, NoContent)]} :
                             target' = [target EXCEPT ![walkPos] = left]
                       /\ UNCHANGED walkPos
                  ELSE /\ target' = [target EXCEPT ![walkPos] =
                                        [kind |-> "file",
                                         content |-> WriteFile(dest.content, e.content)]]
                       /\ walkPos' = walkPos + 1
                       /\ UNCHANGED walkErr
    /\ IF ~embedded[walkPos].isDir /\ IsYAMLFile(embedded[walkPos].name)
          /\ FileExists(target[walkPos])
       THEN TRUE
       ELSE UNCHANGED tmpEmbedFiles
    /\ UNCHANGED <<embedded, target0>>
    /\ UNCHANGED notDirVars

\* The names an embedded tree is drawn from, in the lexical order of the walk.
EmbeddedNames ==
    << <<"a", "yaml">>, <<"b", "yml">>, <<"c", "patch", "yaml">>, <<"d", "patch", "yml">>,
       <<"e", "txt">>, <<"f", "YAML">>, <<"g">>, <<"patch", "yaml">>, <<"yaml">> >>

EmbeddedContents ==
    { Content("", "nil", MappingDoc(<<"kind", "extra">>, Scalar("3"))),
      Content("plain text", "yaml: did not find expected key", ZeroNode) }

EmbeddedEntry(i, c) ==
    IF EmbeddedNames[i] = <<"g">>
    THEN [name |-> EmbeddedNames[i], isDir |-> TRUE, content |-> NoContent]
    ELSE [name |-> EmbeddedNames[i], isDir |-> FALSE, content |-> c]

Destinations ==
    { [kind |-> "missing", content |-> NoContent],
      [kind |-> "dir", content |-> NoContent],
      [kind |-> "file",
       content |-> Content("", "nil", MappingDoc(<<"kind", "zeta">>, Scalar("1")))],
      [kind |-> "file",
       content |-> Content("old text", "yaml: did not find expected key", ZeroNode)],
      [kind |-> "file", content |-> NoContent],
      [kind |-> "file",
       content |-> [Content("", "nil", MappingDoc(<<"kind", "zeta">>, Scalar("1")))
                       EXCEPT !.readErr = "permission denied"]] }

InitDir ==
    /\ \E n \in 1..MaxFiles :
         \E at \in [1..n -> 1..Len(EmbeddedNames)], cs \in [1..n -> EmbeddedContents] :
            /\ \A i, j \in 1..n : i < j => at[i] < at[j]
            /\ embedded = [i \in 1..n |-> EmbeddedEntry(at[i], cs[i])]
            /\ target \in [1..n -> Destinations]
    /\ target0 = target
    /\ walkPos = 1
    /\ walkErr = "nil"
    /\ tmpEmbedFiles = <<>>
    /\ NoMerge
    /\ NoYq
    /\ NoSteps
    /\ NoCli
    /\ NoOps

NextDir == CopyAndMergeYAMLDirVisit

SpecDir == InitDir /\ [][NextDir]_vars

(***************************************************************************)
(* One run of the program: main, then cmd.Execute, in which cobra parses   *)
(* the command line, calls initConfig (cobra.OnInitialize), then the       *)
(* PersistentPreRun hook and the Run function of the command named.        *)
(***************************************************************************)
Commands ==
    {"pires-cli", "gcp",
     "gcp iam", "gcp iam create-sa", "gcp iam grant-role",
     "gcp cloudsql", "gcp cloudsql create-user", "gcp cloudsql create-database",
     "gcp cloudsql export-postgresql-users-permissions",
     "gcp cloudsql export-postgresql-audit-logs",
     "gcp firewall", "gcp firewall export-rules"}

\* AddCommand: the command a command was added to.
Parent(c) ==
    CASE c = "gcp" -> "pires-cli"
      [] c \in {"gcp iam", "gcp cloudsql", "gcp firewall"} -> "gcp"
      [] c \in {"gcp iam create-sa", "gcp iam grant-role"} -> "gcp iam"
      [] c \in {"gcp cloudsql create-user", "gcp cloudsql create-database",
                "gcp cloudsql export-postgresql-users-permissions",
                "gcp cloudsql export-postgresql-audit-logs"} -> "gcp cloudsql"
      [] c = "gcp firewall export-rules" -> "gcp firewall"
      [] OTHER -> "none"

\* The commands that define PersistentPreRun or PersistentPreRunE.
HasPersistentPreRun(c) == c \in {"gcp", "gcp iam", "gcp cloudsql", "gcp firewall"}

\* The commands that define Run or RunE.
Runnable(c) == c \in Commands \ {"gcp iam", "gcp cloudsql", "gcp firewall"}

Ancestors(c) == <<c, Parent(c), Parent(Parent(c)), Parent(Parent(Parent(c)))>>

\* Mutant: the hook nearest to the root runs.
PersistentPreRunOfOutermost(c) ==
    LET hooks == SelectSeq(Ancestors(c), HasPersistentPreRun)
    IN IF hooks = <<>> THEN "none" ELSE hooks[Len(hooks)]

\* cobra runs one persistent hook: that of the nearest command, from the one
\* executed up to the root, that defines one.
PersistentPreRunOf(c) ==
    LET hooks == SelectSeq(Ancestors(c), HasPersistentPreRun)
    IN IF hooks = <<>> THEN "none" ELSE hooks[1]

GCPRequiredRole == "roles/owner"

Issued(by, cmd, out) == [by |-> by, cmd |-> cmd, stdout |-> out.stdout, err |-> out.err]

NoOutput == [stdout |-> <<>>, err |-> FALSE]

\* The external commands the Run function of a command issues.
RunCommands(c) ==
    CASE c = "gcp iam create-sa" -> <<"gcloud iam service-accounts create">>
      [] c = "gcp iam grant-role" -> <<"gcloud projects add-iam-policy-binding">>
      [] c = "gcp cloudsql create-user" -> <<"gcloud sql users create">>
      [] c = "gcp cloudsql create-database" -> <<"gcloud sql databases create">>
      [] c = "gcp cloudsql export-postgresql-users-permissions" -> <<"psql">>
      [] c = "gcp cloudsql export-postgresql-audit-logs" -> <<"gcloud logging read">>
      [] c = "gcp firewall export-rules" -> <<"gcloud compute firewall-rules list">>
      [] OTHER -> <<>>

\* strings.TrimSpace on an output given as its lines and the white space
\* between them.
IsSpace(t) == t \in {" ", "\n", "\t"}

TrimSpace(out) ==
    LET keep == {i \in 1..Len(out) : ~IsSpace(out[i])}
    IN IF keep = {} THEN <<>>
       ELSE SubSeq(out, CHOOSE i \in keep : \A j \in keep : i <= j,
                        CHOOSE i \in keep : \A j \in keep : j <= i)

\* What `gcloud config get-value account` may answer.
AccountOutcomes ==
    { [stdout |-> <<"admin@example.com", "\n">>, err |-> FALSE],
      [stdout |-> <<"\n">>, err |-> FALSE],
      [stdout |-> <<>>, err |-> TRUE] }

\* What `gcloud projects get-iam-policy` may answer.
PolicyOutcomes ==
    { [stdout |-> <<"roles/owner", "\n">>, err |-> FALSE],
      [stdout |-> <<>>, err |-> FALSE],
      [stdout |-> <<"roles/owner", "\n", "roles/owner", "\n">>, err |-> FALSE],
      [stdout |-> <<>>, err |-> TRUE] }

\* CheckGcloudAuth() when gcloud answers account: whether it ends the process.
CheckGcloudAuth(account) ==
    [fatal |-> account.err \/ TrimSpace(account.stdout) = <<>>,
     issued |-> <<Issued("check", "gcloud config get-value account", account)>>]

\* CheckGcloudAdminPermissions(projectID) when gcloud gives these two answers.
CheckGcloudAdminPermissions(projectID, account, policy) ==
    IF projectID = "" THEN [fatal |-> TRUE, issued |-> <<>>]
    ELSE IF CheckGcloudAuth(account).fatal THEN CheckGcloudAuth(account)
    ELSE [fatal |-> policy.err \/ TrimSpace(policy.stdout) # <<GCPRequiredRole>>,
          issued |-> CheckGcloudAuth(account).issued
                     \o <<Issued("check", "gcloud projects get-iam-policy", policy)>>]

\* main, up to its call of cmd.Execute().
main ==
    /\ mainPc = "main"
    /\ issued' = IF VPNCheckConnection
                 THEN Append(issued, Issued("main", "CheckVPNConnection", NoOutput))
                 ELSE issued
    /\ mainPc' = "Execute"
    /\ UNCHANGED <<osArgs, environ, configFiles, Properties, VPNCheckConnection>>
    /\ UNCHANGED notCliVars

\* rootCmd.Execute(): cobra finds the command and parses the flags, which
\* init bound to config.Properties and config.VPNCheckConnection.
ParseFlags ==
    /\ mainPc = "Execute"
    /\ Properties' = IF osArgs.gcpProject = "unset" THEN Properties
                     ELSE [Properties EXCEPT !.DefaultGCPProject = osArgs.gcpProject]
    /\ VPNCheckConnection' = CASE osArgs.vpnCheckConnection = "true" -> TRUE
                               [] osArgs.vpnCheckConnection = "false" -> FALSE
                               [] OTHER -> VPNCheckConnection
    /\ mainPc' = IF Runnable(osArgs.command) THEN "initConfig" ELSE "help"
    /\ UNCHANGED <<osArgs, environ, configFiles, issued>>
    /\ UNCHANGED notCliVars

\* The file viper.ReadInConfig ends up with: the one --config-file names, or
\* else the .env file found in "." or "/app".
ConfigFileUsed == IF configFiles.specific # "missing" THEN configFiles.specific
                  ELSE configFiles.fallback

\* viper.AllSettings(): the keys viper knows are those of the file it read;
\* no default, flag or environment variable is bound to a key.
AllSettings ==
    IF ConfigFileUsed \in {"missing", "no key"} THEN <<>>
    ELSE [k \in {"cli_gcp_project"} |-> ConfigFileUsed]

\* viper.Unmarshal(&config.Properties): a field is written only if its
\* mapstructure key is among the settings.
Unmarshal2Properties(settings, props) ==
    IF "cli_gcp_project" \in DOMAIN settings
    THEN [props EXCEPT !.DefaultGCPProject = settings["cli_gcp_project"]]
    ELSE props

initConfig ==
    /\ mainPc = "initConfig"
    /\ Properties' = Unmarshal2Properties(AllSettings, Properties)
    /\ mainPc' = IF Properties'.DefaultGCPProject = "" THEN "exited"  \* validate: required
                 ELSE IF PersistentPreRunOf(osArgs.command) # "none" THEN "PersistentPreRun"
                 ELSE "Run"
    /\ UNCHANGED <<osArgs, environ, configFiles, VPNCheckConnection, issued>>
    /\ UNCHANGED notCliVars

PersistentPreRun ==
    /\ mainPc = "PersistentPreRun"
    /\ IF PersistentPreRunOf(osArgs.command) = "gcp"
       THEN /\ mainPc' = "Run"
            /\ UNCHANGED issued
       ELSE \E account \in AccountOutcomes, policy \in PolicyOutcomes :
              \E r \in {CheckGcloudAdminPermissions(Properties.DefaultGCPProject,
                                                    account, policy)} :
                 /\ issued' = issued \o r.issued
                 /\ mainPc' = IF r.fatal THEN "exited" ELSE "Run"
    /\ UNCHANGED <<osArgs, environ, configFiles, Properties, VPNCheckConnection>>
    /\ UNCHANGED notCliVars

\* The Run or RunE function of the command: it ends the process if an
\* argument it requires is missing, and issues its commands otherwise.
Run ==
    /\ mainPc = "Run"
    /\ \E argsGiven \in BOOLEAN :
         IF RunCommands(osArgs.command) = <<>> \/ argsGiven
         THEN /\ issued' = issued \o [i \in 1..Len(RunCommands(osArgs.command)) |->
                                        Issued("Run", RunCommands(osArgs.command)[i], NoOutput)]
              /\ mainPc' = "done"
         ELSE /\ mainPc' = "exited"
              /\ UNCHANGED issued
    /\ UNCHANGED <<osArgs, environ, configFiles, Properties, VPNCheckConnection>>
    /\ UNCHANGED notCliVars

InitCli ==
    /\ osArgs \in [command : Commands,
                   vpnCheckConnection : {"unset", "true", "false"},
                   gcpProject : {"unset", "", "flag-project"}]
    /\ environ \in {"unset", "env-project"}
    /\ configFiles \in [specific : {"missing", "no key", "file-project"},
                        fallback : {"missing", "fallback-project"}]
    /\ mainPc = "main"
    /\ Properties = Config
    /\ VPNCheckConnection = FALSE
    /\ issued = <<>>
    /\ NoMerge
    /\ NoYq
    /\ NoSteps
    /\ NoDir
    /\ NoOps

NextCli == main \/ ParseFlags \/ initConfig \/ PersistentPreRun \/ Run

SpecCli == InitCli /\ [][NextCli]_vars

(***************************************************************************)
(* ModifyYamlInPlace(filePath, fullExpression).  The file system is the    *)
(* parent directory of the file and the file: each is missing, a           *)
(* directory, a regular file, or cannot be examined ("denied").            *)
(***************************************************************************)
MaxModifies == 2    \* calls of ModifyYamlInPlace

\* Lines 199-213: os.Stat(dirPath), os.MkdirAll when it does not exist.
EnsureDir(fs, mkdirOk) ==
    CASE fs.dir = "missing" ->
           IF mkdirOk THEN [err |-> "nil", fs |-> [fs EXCEPT !.dir = "dir"]]
           ELSE [err |-> "failed to create directory", fs |-> fs]
      [] fs.dir = "denied" -> [err |-> "Failed to check status of directory", fs |-> fs]
      [] OTHER -> [err |-> "nil", fs |-> fs]

\* Mutant: a missing file is left missing.
EnsureFileSkipsCreate(fs, createOk) ==
    CASE fs.dir # "dir" -> [err |-> "Failed to check status of file", fs |-> fs]
      [] fs.file = "denied" -> [err |-> "Failed to check status of file", fs |-> fs]
      [] OTHER -> [err |-> "nil", fs |-> fs]

\* Lines 215-234: os.Stat(filePath), os.Create when it does not exist.  Below
\* a parent that is not a directory the stat fails with ENOTDIR.
EnsureFile(fs, createOk) ==
    CASE fs.dir # "dir" -> [err |-> "Failed to check status of file", fs |-> fs]
      [] fs.file = "missing" ->
           IF createOk THEN [err |-> "nil", fs |-> [fs EXCEPT !.file = "file"]]
           ELSE [err |-> "Failed to create non-existent file", fs |-> fs]
      [] fs.file = "denied" -> [err |-> "Failed to check status of file", fs |-> fs]
      [] OTHER -> [err |-> "nil", fs |-> fs]

\* RunYqCommand("eval", "-i", expression, filePath) with the path GetYqPath
\* gave: yq fails on what is not a regular file, and may fail on one.
RunYqCommand(execPath, fs, yqOk) ==
    IF execPath = "" THEN [yq |-> "not run", err |-> "yq executable path is not set"]
    ELSE IF fs.file = "file" /\ yqOk THEN [yq |-> "ok", err |-> "nil"]
    ELSE [yq |-> "failed", err |-> "yq command failed"]

ModCall(filePath, fullExpression, before, atYq, yq, err, returned) ==
    [filePath |-> filePath, fullExpression |-> fullExpression, before |-> before,
     atYq |-> atYq, yq |-> yq, err |-> err, returned |-> returned]

\* One call, from entry to return.  The first call that reaches RunYqCommand
\* runs SearchForYq inside findYqOnce.Do, which ends the process when the
\* binary cannot be extracted.
ModifyYamlInPlace ==
    /\ ~exited
    /\ Len(modCalls) < MaxModifies
    /\ \E filePath \in {"", "d/f.yaml"}, fullExpression \in {"", ".a = 1"},
          io \in [mkdir : BOOLEAN, create : BOOLEAN, search : BOOLEAN, yq : BOOLEAN] :
         IF filePath = ""
         THEN /\ modCalls' = Append(modCalls, ModCall(filePath, fullExpression, fsys, fsys,
                                      "not run", "File path cannot be empty", TRUE))
              /\ UNCHANGED <<fsys, yqVars>>
         ELSE IF fullExpression = ""
         THEN /\ modCalls' = Append(modCalls, ModCall(filePath, fullExpression, fsys, fsys,
                                      "not run", "yq expression cannot be empty", TRUE))
              /\ UNCHANGED <<fsys, yqVars>>
         ELSE \E d \in {EnsureDir(fsys, io.mkdir)} :
              IF d.err # "nil"
              THEN /\ modCalls' = Append(modCalls, ModCall(filePath, fullExpression, fsys,
                                           d.fs, "not run", d.err, TRUE))
                   /\ fsys' = d.fs
                   /\ UNCHANGED yqVars
              ELSE \E f \in {EnsureFile(d.fs, io.create)} :
                   IF f.err # "nil"
                   THEN /\ modCalls' = Append(modCalls, ModCall(filePath, fullExpression,
                                                fsys, f.fs, "not run", f.err, TRUE))
                        /\ fsys' = f.fs
                        /\ UNCHANGED yqVars
                   ELSE IF findYqOnce = "new" /\ ~io.search
                   THEN /\ exited' = TRUE
                        /\ yqCalls' = [yqCalls EXCEPT !.SearchForYq = @ + 1]
                        /\ modCalls' = Append(modCalls, ModCall(filePath, fullExpression,
                                                fsys, f.fs, "not run", "nil", FALSE))
                        /\ fsys' = f.fs
                        /\ foundYqPath' = ""
                        /\ UNCHANGED <<findYqOnce, tmpDir, gpc, yqResults>>
                   ELSE \E execPath \in {IF findYqOnce = "new" THEN TempName(yqCalls.CreateTemp)
                                         ELSE foundYqPath} :
                        \E r \in {RunYqCommand(execPath, f.fs, io.yq)} :
                           /\ modCalls' = Append(modCalls, ModCall(filePath, fullExpression,
                                                   fsys, f.fs, r.yq, r.err, TRUE))
                           /\ fsys' = f.fs
                           /\ foundYqPath' = execPath
                           /\ findYqOnce' = "done"
                           /\ IF findYqOnce = "new"
                              THEN /\ tmpDir' = tmpDir \cup {execPath}
                                   /\ yqCalls' = [yqCalls EXCEPT !.SearchForYq = @ + 1,
                                                                 !.CreateTemp = @ + 1]
                              ELSE UNCHANGED <<tmpDir, yqCalls>>
                           /\ UNCHANGED <<gpc, yqResults, exited>>
    /\ UNCHANGED <<cloud, gcpCalls>>
    /\ UNCHANGED <<mergeVars, fileVars, stepVars, dirVars, cliVars>>

\* The directory, and the file below it when the directory is one.
FileSystems ==
    {[dir |-> "dir", file |-> f] : f \in {"missing", "file", "dir", "denied"}}
    \cup {[dir |-> d, file |-> "missing"] : d \in {"missing", "file", "denied"}}

InitModify ==
    /\ fsys \in FileSystems
    /\ modCalls = <<>>
    /\ cloud = {}
    /\ gcpCalls = <<>>
    /\ NoMerge
    /\ NoYq
    /\ NoSteps
    /\ NoDir
    /\ NoCli

NextModify == ModifyYamlInPlace

SpecModify == InitModify /\ [][NextModify]_vars

(***************************************************************************)
(* The functions of package gcp that wrap one gcloud command.  Each is     *)
(* called in a process of its own; what persists between the calls is the  *)
(* cloud.  A call is recorded with the arguments gcloud was given (none    *)
(* when it was not invoked), gcloud's answer, how the process went on      *)
(* ("normal", or "fatal" when common.Logger("fatal", ...) ended it),       *)
(* whether a warning was logged, and the directories and files it wrote.   *)
(***************************************************************************)
MaxOps == 2         \* calls of the functions of package gcp

GcpCall(fn, input, args, answer, ended, warned, dirs, files) ==
    [fn |-> fn, input |-> input, args |-> args, answer |-> answer, ended |-> ended,
     warned |-> warned, dirs |-> dirs, files |-> files]

\* stdout and stderr are sequences of words.
GcloudAnswer(stdout, stderr, err) == [stdout |-> stdout, stderr |-> stderr, err |-> err]

NoAnswer == GcloudAnswer(<<>>, <<>>, FALSE)

\* strings.Contains(s, substr)
Contains(s, substr) ==
    \E i \in 0..(Len(s) - Len(substr)) : SubSeq(s, i + 1, i + Len(substr)) = substr

\* strings.Count(s, "-") on a location given as its characters.
Count(s, ch) == Cardinality({i \in 1..Len(s) : s[i] = ch})

\* What a gcloud create command may answer: it fails with "already exists"
\* when the resource is there, creates it otherwise, and may fail for
\* another reason either way.
CreateAnswers(resource) ==
    (IF resource \in cloud
     THEN {GcloudAnswer(<<>>, <<"ERROR:", "Resource", "already", "exists">>, TRUE)}
     ELSE {GcloudAnswer(<<"Created">>, <<>>, FALSE)})
    \cup {GcloudAnswer(<<>>, <<"ERROR:", "permission", "denied">>, TRUE)}

\* Mutant: every failure of the create command is taken for "already exists".
AfterCreateAnyFailureWarns(fn, input, args, answer) ==
    IF answer.err
    THEN GcpCall(fn, input, <<args>>, answer, "normal", TRUE, <<>>, <<>>)
    ELSE GcpCall(fn, input, <<args>>, answer, "normal", FALSE, <<>>, <<>>)

\* The common end of the three create functions: `if err != nil { if
\* strings.Contains(stderr, "already exists") { warning } else { fatal } }`.
AfterCreate(fn, input, args, answer) ==
    IF answer.err
    THEN IF Contains(answer.stderr, <<"already", "exists">>)
         THEN GcpCall(fn, input, <<args>>, answer, "normal", TRUE, <<>>, <<>>)
         ELSE GcpCall(fn, input, <<args>>, answer, "fatal", FALSE, <<>>, <<>>)
    ELSE GcpCall(fn, input, <<args>>, answer, "normal", FALSE, <<>>, <<>>)

Fatal(fn, input) == GcpCall(fn, input, <<>>, NoAnswer, "fatal", FALSE, <<>>, <<>>)

Record(call, resource) ==
    /\ gcpCalls' = Append(gcpCalls, call)
    /\ cloud' = IF call.args # <<>> /\ ~call.answer.err /\ resource # "" 
                THEN cloud \cup {resource} ELSE cloud
    /\ UNCHANGED <<fsys, modCalls>>
    /\ UNCHANGED <<mergeVars, fileVars, yqVars, stepVars, dirVars, cliVars>>

ServiceAccountArgs(in) ==
    <<"iam", "service-accounts", "create", in.accountID, "--display-name", in.accountID,
      "--project", in.projectID>>
    \o (IF in.description # "" THEN <<"--description", in.description>> ELSE <<>>)

CreateGCPIAMServiceAccount ==
    /\ Len(gcpCalls) < MaxOps
    /\ \E in \in {[projectID |-> p, accountID |-> a, description |-> d] :
                    p \in {"", "prj"}, a \in {"", "sa"}, d \in {"", "about"}} :
         IF in.projectID = "" \/ in.accountID = ""
         THEN Record(Fatal("CreateGCPIAMServiceAccount", in), "")
         ELSE \E answer \in CreateAnswers("sa:" \o in.accountID) :
                 Record(AfterCreate("CreateGCPIAMServiceAccount", in,
                                    ServiceAccountArgs(in), answer),
                        "sa:" \o in.accountID)

\* Mutant: an empty password only leaves --password out.
SQLUserArgsPasswordOptional(in) ==
    [fatal |-> FALSE,
     args |-> <<"sql", "users", "create", in.userName, "--instance", in.instanceID,
                "--host", IF in.host = "" THEN "%" ELSE in.host, "--project", in.projectID>>
              \o (IF in.password # "" THEN <<"--password", in.password>> ELSE <<>>)]

\* CreateGCPCloudSQLUser up to its call of RunGcloudCommand.
SQLUserArgs(in) ==
    [fatal |-> in.password = "",
     args |-> <<"sql", "users", "create", in.userName, "--instance", in.instanceID,
                "--host", IF in.host = "" THEN "%" ELSE in.host, "--project", in.projectID>>
              \o (IF in.password # "" THEN <<"--password", in.password>> ELSE <<>>)]

SQLUserInputs ==
    {[projectID |-> "prj", instanceID |-> "inst", userName |-> "app", password |-> pw,
      host |-> h] : pw \in {"", "secret"}, h \in {"", "10.0.0.1"}}
    \cup {[projectID |-> p, instanceID |-> i, userName |-> u, password |-> pw, host |-> ""] :
            p \in {"", "prj"}, i \in {"", "inst"}, u \in {"", "app"}, pw \in {"", "secret"}}

CreateGCPCloudSQLUser ==
    /\ Len(gcpCalls) < MaxOps
    /\ \E in \in SQLUserInputs :
         IF in.projectID = "" \/ in.instanceID = "" \/ in.userName = "" \/ SQLUserArgs(in).fatal
         THEN Record(Fatal("CreateGCPCloudSQLUser", in), "")
         ELSE \E user \in {"user:" \o in.userName \o "@" \o SQLUserArgs(in).args[8]} :
              \E answer \in CreateAnswers(user) :
                 Record(AfterCreate("CreateGCPCloudSQLUser", in, SQLUserArgs(in).args, answer),
                        user)

SQLDatabaseArgs(in) ==
    <<"sql", "databases", "create", in.dbName, "--instance", in.instanceID,
      "--project", in.projectID>>
    \o (IF in.charset # "" THEN <<"--charset", in.charset>> ELSE <<>>)
    \o (IF in.collation # "" THEN <<"--collation", in.collation>> ELSE <<>>)

CreateGCPCloudSQLDatabase ==
    /\ Len(gcpCalls) < MaxOps
    /\ \E in \in {[projectID |-> "prj", instanceID |-> "inst", dbName |-> "db",
                   charset |-> c, collation |-> l] : c \in {"", "UTF8"}, l \in {"", "en_US"}}
                 \cup {[projectID |-> p, instanceID |-> i, dbName |-> d,
                        charset |-> "", collation |-> ""] :
                         p \in {"", "prj"}, i \in {"", "inst"}, d \in {"", "db"}} :
         IF in.projectID = "" \/ in.instanceID = "" \/ in.dbName = ""
         THEN Record(Fatal("CreateGCPCloudSQLDatabase", in), "")
         ELSE \E answer \in CreateAnswers("db:" \o in.dbName) :
                 Record(AfterCreate("CreateGCPCloudSQLDatabase", in,
                                    SQLDatabaseArgs(in), answer),
                        "db:" \o in.dbName)

\* Mutant: any hyphen makes the location a zone.
LocationFlagAnyHyphen(location) ==
    IF Contains(location, <<"-">>) THEN "--zone" ELSE "--region"

\* `strings.Contains(location, "-") && (strings.Count(location, "-") == 2)`
LocationFlag(location) ==
    IF Contains(location, <<"-">>) /\ Count(location, "-") = 2 THEN "--zone" ELSE "--region"

\* The string a sequence of characters spells.
RECURSIVE Spell(_)
Spell(chars) == IF chars = <<>> THEN "" ELSE chars[1] \o Spell(Tail(chars))

\* Locations as their characters, the letters and digits between the hyphens
\* taken as one.
Locations ==
    { <<>>, <<"local">>, <<"us", "-", "central1">>, <<"us", "-", "central1", "-", "a">>,
      <<"-", "-">>, <<"a", "-", "b", "-", "c", "-", "d">> }

ConnectToGKECluster ==
    /\ Len(gcpCalls) < MaxOps
    /\ \E in \in {[projectID |-> "prj", location |-> l, clusterName |-> "gke"] : l \in Locations}
                 \cup {[projectID |-> p, location |-> <<"us", "-", "central1">>,
                        clusterName |-> c] : p \in {"", "prj"}, c \in {"", "gke"}} :
         IF in.projectID = "" \/ in.location = <<>> \/ in.clusterName = ""
         THEN Record(Fatal("ConnectToGKECluster", in), "")
         ELSE \E answer \in {GcloudAnswer(<<"kubeconfig", "entry", "generated">>, <<>>, FALSE),
                             GcloudAnswer(<<>>, <<"ERROR:", "not", "found">>, TRUE)} :
                 Record(GcpCall("ConnectToGKECluster", in,
                                << <<"container", "clusters", "get-credentials",
                                     in.clusterName, "--project", in.projectID,
                                     LocationFlag(in.location), Spell(in.location)>> >>,
                                answer, IF answer.err THEN "fatal" ELSE "normal",
                                FALSE, <<>>, <<>>),
                        "")

\* What the two list commands may answer.
ListAnswers ==
    { GcloudAnswer(<<"row1", "row2">>, <<>>, FALSE),
      GcloudAnswer(<<>>, <<>>, FALSE),
      GcloudAnswer(<<"row1">>, <<"WARNING:", "slow">>, FALSE),
      GcloudAnswer(<<>>, <<"ERROR:", "permission", "denied">>, TRUE),
      GcloudAnswer(<<"row1">>, <<"ERROR:", "interrupted">>, TRUE) }

\* Mutant: the output file is written whatever gcloud answered.
WriteExportUnchecked(fn, input, args, answer, emptyIsFatal, mkdirOk, writeOk) ==
    CASE input.outputDir # "" /\ ~mkdirOk ->
           GcpCall(fn, input, <<args>>, answer, "fatal", FALSE, <<>>, <<>>)
      [] OTHER ->
           GcpCall(fn, input, <<args>>, answer, IF writeOk THEN "normal" ELSE "fatal",
                   answer.stdout = <<>>,
                   IF input.outputDir # "" THEN <<input.outputDir>> ELSE <<>>,
                   IF writeOk THEN <<[dir |-> input.outputDir, content |-> answer.stdout]>>
                   ELSE <<>>)

\* The common course of the two exports after RunGcloudCommand: fatal on an
\* error; on an empty stdout fatal (audit logs) or a warning (firewall
\* rules); os.MkdirAll of a given output directory; os.WriteFile of stdout.
WriteExport(fn, input, args, answer, emptyIsFatal, mkdirOk, writeOk) ==
    CASE answer.err ->
           GcpCall(fn, input, <<args>>, answer, "fatal", FALSE, <<>>, <<>>)
      [] ~answer.err /\ answer.stdout = <<>> /\ emptyIsFatal ->
           GcpCall(fn, input, <<args>>, answer, "fatal", FALSE, <<>>, <<>>)
      [] ~answer.err /\ ~(answer.stdout = <<>> /\ emptyIsFatal)
           /\ input.outputDir # "" /\ ~mkdirOk ->
           GcpCall(fn, input, <<args>>, answer, "fatal", answer.stdout = <<>>, <<>>, <<>>)
      [] OTHER ->
           GcpCall(fn, input, <<args>>, answer, IF writeOk THEN "normal" ELSE "fatal",
                   answer.stdout = <<>>,
                   IF input.outputDir # "" THEN <<input.outputDir>> ELSE <<>>,
                   IF writeOk THEN <<[dir |-> input.outputDir, content |-> answer.stdout]>>
                   ELSE <<>>)

ExportGCPFirewallRulesToCSV ==
    /\ Len(gcpCalls) < MaxOps
    /\ \E in \in {[projectID |-> "prj", outputDir |-> o] : o \in {"", "reports"}},
          answer \in ListAnswers, mkdirOk \in BOOLEAN, writeOk \in BOOLEAN :
         Record(WriteExport("ExportGCPFirewallRulesToCSV", in,
                            <<"compute", "firewall-rules", "list", "--project", in.projectID,
                              "--format=csv">>,
                            answer, FALSE, mkdirOk, writeOk),
                "")

ExportPostgresAuditLogs ==
    /\ Len(gcpCalls) < MaxOps
    /\ \E in \in {[projectID |-> "prj", instanceID |-> "inst", outputDir |-> o] :
                    o \in {"", "reports"}},
          answer \in ListAnswers, mkdirOk \in BOOLEAN, writeOk \in BOOLEAN :
         Record(WriteExport("ExportPostgresAuditLogs", in,
                            <<"logging", "read", "filter", "--project", in.projectID,
                              "--format=value(timestamp,textPayload)">>,
                            answer, TRUE, mkdirOk, writeOk),
                "")

InitGcp ==
    /\ cloud \in {{}, {"sa:sa"}, {"user:app@%", "db:db"}}
    /\ gcpCalls = <<>>
    /\ fsys = [dir |-> "dir", file |-> "file"]
    /\ modCalls = <<>>
    /\ NoMerge
    /\ NoYq
    /\ NoSteps
    /\ NoDir
    /\ NoCli

NextGcp ==
    \/ CreateGCPIAMServiceAccount
    \/ CreateGCPCloudSQLUser
    \/ CreateGCPCloudSQLDatabase
    \/ ConnectToGKECluster
    \/ ExportGCPFirewallRulesToCSV
    \/ ExportPostgresAuditLogs

SpecGcp == InitGcp /\ [][NextGcp]_vars

(***************************************************************************)
(* ExportPostgresUsersAndPermissions.  psql prints one database name, or   *)
(* one row of grants, per line; a line of grants is given as the parts     *)
(* strings.Split(line, "|") makes of it.  The report is the sequence of    *)
(* the lines written to it.                                                *)
(***************************************************************************)
MaxDbs == 2         \* databases psql lists

DbNames == {"app", "cloudsqladmin", "prisma_migrate_1", "shop"}

\* regexp.MatchString for the patterns of the model.
MatchString(pattern, name) == pattern = "^prisma_migrate" /\ name = "prisma_migrate_1"

\* Mutant: an answer on stderr with exit code 0 is let through.
RunPSQLIgnoresStderr(answer) == [fatal |-> answer.err, stdout |-> answer.stdout]

\* runPSQL: fatal on an error and on any stderr, else stdout (the error it
\* returns is always nil).
RunPSQL(answer) == [fatal |-> answer.err \/ answer.stderr # <<>>, stdout |-> answer.stdout]

\* Mutant: rows of PUBLIC are written like the others.
RowWrittenPublicToo(parts) == Len(parts) = 3

\* `if len(parts) != 3 { continue }` and `if grantee == "PUBLIC" { continue }`
RowWritten(parts) == Len(parts) = 3 /\ parts[1] # "PUBLIC"

\* The loop over the lines of one database, currentUser being the grantee of
\* the last header.
RECURSIVE WriteRows(_, _)
WriteRows(lines, currentUser) ==
    IF lines = <<>> THEN <<>>
    ELSE IF ~RowWritten(lines[1]) THEN WriteRows(Tail(lines), currentUser)
    ELSE (IF lines[1][1] # currentUser THEN << <<"User/Role", lines[1][1]>> >> ELSE <<>>)
         \o << <<"Table", lines[1][2]>>, <<"Permission", lines[1][3]>> >>
         \o WriteRows(Tail(lines), lines[1][1])

\* Whether the loop over dbNames skips a database.
SkipsDatabase(dbName, excludePattern) ==
    dbName = "cloudsqladmin" \/ (excludePattern # "" /\ MatchString(excludePattern, dbName))

\* The loop over dbNames from position i on: the lines it adds to the
\* report, the databases it queries, and whether a query ended the process.
RECURSIVE DatabaseLoop(_, _, _, _)
DatabaseLoop(dbNames, permAnswers, excludePattern, i) ==
    IF i > Len(dbNames) THEN [fatal |-> FALSE, lines |-> <<>>, queried |-> <<>>]
    ELSE IF SkipsDatabase(dbNames[i], excludePattern)
    THEN DatabaseLoop(dbNames, permAnswers, excludePattern, i + 1)
    ELSE IF RunPSQL(permAnswers[i]).fatal
    THEN [fatal |-> TRUE, lines |-> <<>>, queried |-> <<dbNames[i]>>]
    ELSE LET rest == DatabaseLoop(dbNames, permAnswers, excludePattern, i + 1)
             permOut == RunPSQL(permAnswers[i]).stdout
         IN [fatal |-> rest.fatal,
             lines |-> << <<"DATABASE", dbNames[i]>> >>
                       \o (IF permOut = <<>>
                           THEN << <<"No specific user permissions found">> >>
                           ELSE WriteRows(permOut, "") \o << <<"">> >>)
                       \o rest.lines,
             queried |-> <<dbNames[i]>> \o rest.queried]

\* What psql may answer to the query of the grants.
PermAnswers ==
    LET Row(g, t, p) == <<g, t, p>>
    IN { GcloudAnswer(<<>>, <<>>, FALSE),
         GcloudAnswer(<<Row("alice", "public.t1", "SELECT"), Row("alice", "public.t2", "INSERT"),
                        Row("bob", "public.t1", "SELECT")>>, <<>>, FALSE),
         GcloudAnswer(<<Row("alice", "public.t1", "SELECT"), Row("PUBLIC", "public.t1", "SELECT"),
                        Row("alice", "public.t2", "SELECT")>>, <<>>, FALSE),
         GcloudAnswer(<<Row("PUBLIC", "public.t1", "SELECT"), <<"a", "b|c", "d", "e">>,
                        Row("bob", "public.t1", "SELECT"), <<"">>,
                        Row("alice", "public.t1", "SELECT"), Row("bob", "public.t2", "SELECT")>>,
                      <<>>, FALSE),
         GcloudAnswer(<<Row("alice", "public.t1", "SELECT")>>, <<"NOTICE:", "slow">>, FALSE),
         GcloudAnswer(<<>>, <<"FATAL:", "permission", "denied">>, TRUE) }

\* What psql may answer to the listing of the databases.
ListingAnswers ==
    {GcloudAnswer(names, <<>>, FALSE) :
        names \in {s \in UNION {[1..n -> DbNames] : n \in 0..MaxDbs} :
                      \A i, j \in DOMAIN s : i # j => s[i] # s[j]}}
    \cup {GcloudAnswer(<<"app">>, <<"WARNING:", "collation">>, FALSE),
          GcloudAnswer(<<>>, <<"FATAL:", "password">>, TRUE)}

ExportPostgresUsersAndPermissions ==
    /\ gcpCalls = <<>>
    /\ \E listing \in ListingAnswers, excludePattern \in {"", "^prisma_migrate"},
          outputDir \in {"", "reports"}, mkdirOk \in BOOLEAN, writeOk \in BOOLEAN :
       \E permAnswers \in [1..Len(listing.stdout) -> PermAnswers] :
       \E in \in {[listing |-> listing, permAnswers |-> permAnswers,
                   excludePattern |-> excludePattern, outputDir |-> outputDir]} :
         IF outputDir # "" /\ ~mkdirOk
         THEN Record(Fatal("ExportPostgresUsersAndPermissions", in), "")
         ELSE \E dirs \in {IF outputDir # "" THEN <<outputDir>> ELSE <<>>} :
              IF RunPSQL(listing).fatal
              THEN Record(GcpCall("ExportPostgresUsersAndPermissions", in, << <<"postgres">> >>,
                                  NoAnswer, "fatal", FALSE, dirs, <<>>), "")
              ELSE \E loop \in {DatabaseLoop(RunPSQL(listing).stdout, permAnswers,
                                             excludePattern, 1)} :
                   Record(GcpCall("ExportPostgresUsersAndPermissions", in,
                                  << <<"postgres">> >>
                                    \o [k \in 1..Len(loop.queried) |-> <<loop.queried[k]>>],
                                  NoAnswer,
                                  IF loop.fatal \/ ~writeOk THEN "fatal" ELSE "normal",
                                  FALSE, dirs,
                                  IF loop.fatal \/ ~writeOk THEN <<>>
                                  ELSE <<[dir |-> outputDir,
                                          content |-> << <<"User and Role Permissions Report">> >>
                                                      \o loop.lines]>>),
                          "")

InitReport ==
    /\ cloud = {}
    /\ gcpCalls = <<>>
    /\ fsys = [dir |-> "dir", file |-> "file"]
    /\ modCalls = <<>>
    /\ NoMerge
    /\ NoYq
    /\ NoSteps
    /\ NoDir
    /\ NoCli

NextReport == ExportPostgresUsersAndPermissions

SpecReport == InitReport /\ [][NextReport]_vars

(***************************************************************************)
(* Observations the properties below are stated in.  They read the nodes   *)
(* directly and use none of the merge operators.                           *)
(***************************************************************************)
IsDocument(h, doc) == doc # NilNode /\ h[doc].Kind = "DocumentNode"

RootKind(h, doc) == IF IsDocument(h, doc) THEN h[h[doc].Content[1]].Kind ELSE "none"

\* The keys of a document's root mapping, in the order they stand in it.
KeySeq(h, doc) ==
    IF RootKind(h, doc) = "MappingNode"
    THEN LET content == h[h[doc].Content[1]].Content
         IN [j \in 1..(Len(content) \div 2) |-> h[content[2 * j - 1]].Value]
    ELSE <<>>

\* The value nodes a document's root mapping holds under key, in order.
ValueSeq(h, doc, key) ==
    IF RootKind(h, doc) = "MappingNode"
    THEN LET content == h[h[doc].Content[1]].Content
             at == {j \in 1..(Len(content) \div 2) : h[content[2 * j - 1]].Value = key}
         IN [n \in 1..Cardinality(at) |->
                content[2 * (CHOOSE j \in at : Cardinality({x \in at : x <= j}) = n)]]
    ELSE <<>>

Done(r) == pc[r] = "done"
Merged(r) == Done(r) /\ mergedDoc[r] # NilNode
BothMappings(r) ==
    /\ RootKind(heap0, rootNode1[r]) = "MappingNode"
    /\ RootKind(heap0, rootNode2[r]) = "MappingNode"

PrimaryKeys(r) == Range(KeySeq(heap0, rootNode1[r]))
SecondaryKeys(r) == Range(KeySeq(heap0, rootNode2[r]))
OutKeys(r) == KeySeq(heap, mergedDoc[r])
PolicyKeys == Range(K8sYamlManifestsPreferredKeyOrder)
PolicyIndex(key) ==
    CHOOSE i \in 1..Len(K8sYamlManifestsPreferredKeyOrder) :
        K8sYamlManifestsPreferredKeyOrder[i] = key

(***************************************************************************)
(* C1  Key completeness: the key set of the merged mapping is the union of *)
(* the key sets of the two input root mappings; nothing is dropped and no  *)
(* key absent from both inputs (a preferred key included) is emitted.      *)
(***************************************************************************)
C1_KeyCompleteness ==
    \A r \in Runs :
        (Done(r) /\ BothMappings(r)) =>
            /\ Merged(r)
            /\ Range(OutKeys(r)) = PrimaryKeys(r) \cup SecondaryKeys(r)

\* A merge whose inputs hold a preferred key and a further key only in the
\* primary, and a further key only in the secondary.
C1_Witness ==
    \E r \in Runs :
        /\ Merged(r) /\ BothMappings(r)
        /\ PrimaryKeys(r) = {"kind", "extra"}
        /\ SecondaryKeys(r) = {"zeta"}
        /\ Range(OutKeys(r)) = {"kind", "extra", "zeta"}

(***************************************************************************)
(* C2  Key uniqueness: no key stands twice in the merged mapping, whether  *)
(* it was emitted by the preferred-key loop or by either loop over the     *)
(* remaining keys.                                                         *)
(***************************************************************************)
C2_KeyUniqueness ==
    \A r \in Runs :
        Merged(r) =>
            \A i, j \in 1..Len(OutKeys(r)) : OutKeys(r)[i] = OutKeys(r)[j] => i = j

\* A merge where a preferred key and a further key each stand in both
\* inputs, the further key twice in the primary.
C2_Witness ==
    \E r \in Runs :
        /\ Merged(r)
        /\ KeySeq(heap0, rootNode1[r]) = <<"extra", "extra">>
        /\ "extra" \in SecondaryKeys(r)
        /\ "kind" \in SecondaryKeys(r)
        /\ Len(OutKeys(r)) = 2

(***************************************************************************)
(* C3  Ordering: the preferred keys of the merged mapping stand in the     *)
(* order of the preferred list, and every other key stands after all of    *)
(* them, whatever the key order of the inputs.                             *)
(***************************************************************************)
C3_OrderingContract ==
    \A r \in Runs :
        Merged(r) =>
            \A i, j \in 1..Len(OutKeys(r)) :
                i < j =>
                    /\ (OutKeys(r)[i] \in PolicyKeys /\ OutKeys(r)[j] \in PolicyKeys)
                          => PolicyIndex(OutKeys(r)[i]) <= PolicyIndex(OutKeys(r)[j])
                    /\ ~(OutKeys(r)[i] \notin PolicyKeys /\ OutKeys(r)[j] \in PolicyKeys)

\* The inputs list "spec" before "kind" and a further key before a preferred
\* one; the output lists "kind", "spec", then the further key.
C3_Witness ==
    \E r \in Runs :
        /\ Merged(r)
        /\ KeySeq(heap0, rootNode1[r]) = <<"spec", "kind">>
        /\ KeySeq(heap0, rootNode2[r]) = <<"extra", "kind">>
        /\ OutKeys(r) = <<"kind", "spec", "extra">>

(***************************************************************************)
(* Values: what stands under a key, and what a node holds.                 *)
(***************************************************************************)
PrimaryValues(r, key) == Range(ValueSeq(heap0, rootNode1[r], key))
SecondaryValues(r, key) == Range(ValueSeq(heap0, rootNode2[r], key))
OutValue(r, key) == ValueSeq(heap, mergedDoc[r], key)[1]
SharedKeys(r) == PrimaryKeys(r) \cap SecondaryKeys(r)

BothSequences(r, key) ==
    /\ \A v \in PrimaryValues(r, key) : heap0[v].Kind = "SequenceNode"
    /\ \A v \in SecondaryValues(r, key) : heap0[v].Kind = "SequenceNode"

\* The tree a node stands for, its children in place of their indices.
RECURSIVE Tree(_, _)
Tree(h, n) ==
    [h[n] EXCEPT !.Content = [i \in 1..Len(h[n].Content) |-> Tree(h, h[n].Content[i])]]

Trees(h, ids) == [i \in 1..Len(ids) |-> Tree(h, ids[i])]

\* Two items have a byte-identical serialized form.
SameSerialized(h, a, b) ==
    /\ ~Encode(h, a).err
    /\ ~Encode(h, b).err
    /\ Encode(h, a).text = Encode(h, b).text

\* The items of a scan at which no earlier item has the same serialized form.
FirstOccurrences(h, items) ==
    LET keep == {i \in 1..Len(items) :
                    \A j \in 1..(i - 1) : ~SameSerialized(h, items[j], items[i])}
    IN [n \in 1..Cardinality(keep) |->
           items[CHOOSE i \in keep : Cardinality({x \in keep : x <= i}) = n]]

(***************************************************************************)
(* C4  Override: for a key of both root mappings whose two values are not  *)
(* both sequences, the merged mapping holds the secondary's value under    *)
(* that key.                                                               *)
(***************************************************************************)
C4_SecondaryOverrides ==
    \A r \in Runs :
        (Merged(r) /\ BothMappings(r)) =>
            \A key \in SharedKeys(r) :
                ~BothSequences(r, key) =>
                    /\ key \in Range(OutKeys(r))
                    /\ OutValue(r, key) \in SecondaryValues(r, key)

\* What the code does: the override holds for the keys of the preferred list;
\* any other shared key keeps the primary's value.
C4_CodeOverridesPreferredKeysOnly ==
    \A r \in Runs :
        (Merged(r) /\ BothMappings(r)) =>
            \A key \in SharedKeys(r) :
                /\ (key \in PolicyKeys /\ ~BothSequences(r, key))
                      => OutValue(r, key) \in SecondaryValues(r, key)
                /\ key \notin PolicyKeys => OutValue(r, key) \in PrimaryValues(r, key)

(***************************************************************************)
(* C5  Array merge: for a key of both root mappings with sequence values   *)
(* S1 and S2, the merged value holds the items of S1 then S2 at which no   *)
(* earlier item has a byte-identical serialized form.                      *)
(***************************************************************************)
C5_SequencesMergedUniquely ==
    \A r \in Runs :
        (Merged(r) /\ BothMappings(r)) =>
            \A key \in SharedKeys(r) :
                BothSequences(r, key) =>
                    \A v1 \in PrimaryValues(r, key), v2 \in SecondaryValues(r, key) :
                        /\ key \in Range(OutKeys(r))
                        /\ heap[OutValue(r, key)].Kind = "SequenceNode"
                        /\ Trees(heap, heap[OutValue(r, key)].Content)
                             = Trees(heap0, FirstOccurrences(heap0,
                                   heap0[v1].Content \o heap0[v2].Content))

(***************************************************************************)
(* C6  Idempotence of de-duplication: MergeArraysUniquely(S, S) holds      *)
(* exactly the elements of S that are distinct by serialization (one per   *)
(* serialized form, an element without a serialized form having none to be *)
(* distinct by), each once, in order of first occurrence; merging that     *)
(* result R with itself gives R again.                                     *)
(***************************************************************************)
SameSequence == Tree(heap0, arg1) = Tree(heap0, arg2)

HasSerializedForm(h, n) == ~Encode(h, n).err

DistinctBySerialization(h, items) ==
    FirstOccurrences(h, SelectSeq(items, LAMBDA n : HasSerializedForm(h, n)))

C6_DedupIdempotent ==
    /\ (arrOut # NilNode /\ SameSequence) =>
           heap[arrOut].Content = DistinctBySerialization(heap0, heap0[arg1].Content)
    /\ (arrOut2 # NilNode /\ SameSequence) =>
           heap[arrOut2].Content = heap[arrOut].Content

\* S holds the same plain scalar twice; R holds it once, and so does the merge
\* of R with R.
C6_Witness ==
    /\ arrOut2 # NilNode
    /\ arg1 = arg2
    /\ Len(heap0[arg1].Content) = 2
    /\ SameSerialized(heap0, heap0[arg1].Content[1], heap0[arg1].Content[2])
    /\ Len(heap[arrOut].Content) = 1
    /\ Len(heap[arrOut2].Content) = 1

(***************************************************************************)
(* C7  A document whose root is a bare scalar or a sequence, in either     *)
(* position, makes the merge fail and return no merged document.           *)
(***************************************************************************)
BareRoot(r) ==
    \/ RootKind(heap0, rootNode1[r]) \in {"ScalarNode", "SequenceNode"}
    \/ RootKind(heap0, rootNode2[r]) \in {"ScalarNode", "SequenceNode"}

C7_NonMappingRootRejected ==
    \A r \in Runs :
        (Done(r) /\ BareRoot(r)) =>
            /\ errMerge[r] # "nil"
            /\ mergedDoc[r] = NilNode
            /\ yamlOut[r] = ""

IsNew(n) == n > Len(heap0)

C9_InputsUnchanged ==
    /\ Len(heap) >= Len(heap0)
    /\ \A n \in 1..Len(heap0) : heap[n] = heap0[n]
    /\ \A r \in Runs :
          Merged(r) =>
              /\ IsNew(mergedDoc[r])
              /\ IsNew(heap[mergedDoc[r]].Content[1])
              /\ \A key \in Range(OutKeys(r)) :
                    \/ OutValue(r, key) \in PrimaryValues(r, key) \cup SecondaryValues(r, key)
                    \/ IsNew(OutValue(r, key))
              /\ \A key \in SharedKeys(r) \cap PolicyKeys :
                    BothSequences(r, key) => IsNew(OutValue(r, key))

\* A merge that de-duplicated the sequences under a preferred key and passed
\* on a further key of the primary.
C9_Witness ==
    \E r \in Runs :
        /\ Merged(r)
        /\ KeySeq(heap0, rootNode1[r]) = <<"extra", "kind">>
        /\ "kind" \in SecondaryKeys(r)
        /\ BothSequences(r, "kind")
        /\ Len(heap[OutValue(r, "kind")].Content) = 3
        /\ OutValue(r, "extra") \in PrimaryValues(r, "extra")

(***************************************************************************)
(* C10  Determinism: two runs of the merge on the same two files give      *)
(* merged mappings with the same key sequence.                             *)
(***************************************************************************)
C10_DeterministicKeyOrder ==
    (Merged(1) /\ Merged(2)) => OutKeys(1) = OutKeys(2)

\* What the code does: the two runs agree on the keys and on the order of the
\* preferred keys.
C10_CodeAgreesOnPreferredKeys ==
    (Merged(1) /\ Merged(2)) =>
        /\ Range(OutKeys(1)) = Range(OutKeys(2))
        /\ SelectSeq(OutKeys(1), LAMBDA k : k \in PolicyKeys)
             = SelectSeq(OutKeys(2), LAMBDA k : k \in PolicyKeys)

(***************************************************************************)
(* C11  Leftover keys: the keys of the merged mapping that are not in the  *)
(* preferred list are the primary's such keys in the order they first      *)
(* stand in the primary document, then the keys only the secondary has, in *)
(* the order they first stand in the secondary document.                   *)
(***************************************************************************)
FirstSeen(s) ==
    LET keep == {i \in 1..Len(s) : \A j \in 1..(i - 1) : s[j] # s[i]}
    IN [n \in 1..Cardinality(keep) |->
           s[CHOOSE i \in keep : Cardinality({x \in keep : x <= i}) = n]]

Leftover(s) == SelectSeq(s, LAMBDA k : k \notin PolicyKeys)

C11_LeftoverFirstSeenOrder ==
    \A r \in Runs :
        (Merged(r) /\ BothMappings(r)) =>
            Leftover(OutKeys(r))
              = FirstSeen(Leftover(KeySeq(heap0, rootNode1[r])))
                \o SelectSeq(FirstSeen(Leftover(KeySeq(heap0, rootNode2[r]))),
                             LAMBDA k : k \notin PrimaryKeys(r))

\* What the code does: no key that only the secondary has stands before a
\* leftover key of the primary.
C11_CodePrimaryLeftoversFirst ==
    \A r \in Runs :
        (Merged(r) /\ BothMappings(r)) =>
            \A i, j \in 1..Len(OutKeys(r)) :
                (i < j /\ OutKeys(r)[i] \notin PolicyKeys /\ OutKeys(r)[j] \notin PolicyKeys)
                    => ~(OutKeys(r)[i] \notin PrimaryKeys(r) /\ OutKeys(r)[j] \in PrimaryKeys(r))

(***************************************************************************)
(* C12  Nested mappings.  As claimed: under a key that holds a mapping in  *)
(* both documents the merged value holds the keys of both nested mappings. *)
(* As amended: the merged value is the nested mapping of one of the two    *)
(* documents, unchanged; for a key of the preferred list, the secondary's. *)
(***************************************************************************)
NestedKeys(h, n) ==
    {h[h[n].Content[2 * j - 1]].Value : j \in 1..(Len(h[n].Content) \div 2)}

BothNestedMappings(r, key) ==
    /\ \A v \in PrimaryValues(r, key) : heap0[v].Kind = "MappingNode"
    /\ \A v \in SecondaryValues(r, key) : heap0[v].Kind = "MappingNode"

C12_NestedMappingsMerged ==
    \A r \in Runs :
        (Merged(r) /\ BothMappings(r)) =>
            \A key \in SharedKeys(r) :
                BothNestedMappings(r, key) =>
                    \A v1 \in PrimaryValues(r, key), v2 \in SecondaryValues(r, key) :
                        /\ heap[OutValue(r, key)].Kind = "MappingNode"
                        /\ NestedKeys(heap0, v1) \cup NestedKeys(heap0, v2)
                              \subseteq NestedKeys(heap, OutValue(r, key))

C12_NestedMappingsNotMerged ==
    \A r \in Runs :
        (Merged(r) /\ BothMappings(r)) =>
            \A key \in SharedKeys(r) :
                BothNestedMappings(r, key) =>
                    /\ OutValue(r, key) \in PrimaryValues(r, key) \cup SecondaryValues(r, key)
                    /\ heap[OutValue(r, key)] = heap0[OutValue(r, key)]
                    /\ key \in PolicyKeys => OutValue(r, key) \in SecondaryValues(r, key)

\* "spec" holds {image: x} in the primary and {tag: y} in the secondary; the
\* merged "spec" holds "tag" alone.
C12_Witness ==
    \E r \in Runs :
        /\ Merged(r) /\ BothMappings(r)
        /\ "spec" \in SharedKeys(r)
        /\ BothNestedMappings(r, "spec")
        /\ \E v1 \in PrimaryValues(r, "spec") : NestedKeys(heap0, v1) = {"image"}
        /\ NestedKeys(heap, OutValue(r, "spec")) = {"tag"}

(***************************************************************************)
(* C13  A key of exactly one root mapping: the merged mapping holds that   *)
(* document's value node under it, unchanged down to its items, whether    *)
(* or not the key is in the preferred list and whichever document has it.  *)
(***************************************************************************)
SingleSidedKeys(r) ==
    (PrimaryKeys(r) \ SecondaryKeys(r)) \cup (SecondaryKeys(r) \ PrimaryKeys(r))

C13_SingleSidedValueUnchanged ==
    \A r \in Runs :
        (Merged(r) /\ BothMappings(r)) =>
            \A key \in SingleSidedKeys(r) :
                /\ key \in Range(OutKeys(r))
                /\ OutValue(r, key) \in PrimaryValues(r, key) \cup SecondaryValues(r, key)
                /\ Tree(heap, OutValue(r, key)) = Tree(heap0, OutValue(r, key))

\* The primary alone has the preferred key "kind", the secondary alone the
\* further key "extra"; both hold a sequence with one item twice, and both
\* sequences come out with their two items.
C13_Witness ==
    \E r \in Runs :
        /\ Merged(r) /\ BothMappings(r)
        /\ PrimaryKeys(r) = {"kind"}
        /\ SecondaryKeys(r) = {"extra"}
        /\ \A key \in {"kind", "extra"} :
              /\ heap[OutValue(r, key)].Kind = "SequenceNode"
              /\ Len(heap[OutValue(r, key)].Content) = 2
              /\ SameSerialized(heap, heap[OutValue(r, key)].Content[1],
                                heap[OutValue(r, key)].Content[2])

(***************************************************************************)
(* C14  A file that cannot be read or parsed: MergeYAMLFiles returns the   *)
(* empty string and an error that names a failing file and wraps its       *)
(* cause; no file is read or parsed twice, MergeRootDocumentNodes and the  *)
(* encoder are not called, and no merged document exists.                  *)
(***************************************************************************)
FileFails(f) == f.readErr # "nil" \/ f.parseErr # "nil"

FailingFiles(r) == {f \in Range(disk[r]) : FileFails(f)}

ErrorsNaming(f) ==
    (IF f.readErr # "nil"
     THEN {"Could not read file " \o f.path \o ": " \o f.readErr} ELSE {})
    \cup (IF f.parseErr # "nil"
          THEN {"Failed to parse YAML from " \o f.path \o ": " \o f.parseErr} ELSE {})

Occurrences(s, e) == Cardinality({i \in 1..Len(s) : s[i] = e})

C14_ReadOrParseFailure ==
    \A r \in Runs :
        (Done(r) /\ FailingFiles(r) # {}) =>
            /\ yamlOut[r] = ""
            /\ errMerge[r] \in UNION {ErrorsNaming(f) : f \in FailingFiles(r)}
            /\ mergedDoc[r] = NilNode
            /\ \A e \in Range(trace[r]) : Occurrences(trace[r], e) = 1
            /\ "MergeRootDocumentNodes" \notin Range(trace[r])
            /\ "Encode" \notin Range(trace[r])

\* The primary is a good mapping, the embedded file is not YAML: the call ends
\* after the second parse with the error that names the embedded file.
C14_Witness ==
    \E r \in Runs :
        /\ Done(r)
        /\ disk[r] # <<>>
        /\ ~FileFails(disk[r][1])
        /\ disk[r][2].parseErr # "nil"
        /\ trace[r] = <<"ReadFile dest.yaml", "ReadFile embed.yaml",
                        "Unmarshal dest.yaml", "Unmarshal embed.yaml">>
        /\ errMerge[r] = "Failed to parse YAML from embed.yaml: yaml: did not find expected key"

(***************************************************************************)
(* C15  GetYqPath is idempotent: whatever the goroutines and however often *)
(* they call it, SearchForYq runs at most once, at most one temporary file *)
(* is ever created, and all calls that return give the same path.          *)
(***************************************************************************)
C15_YqAcquiredOnce ==
    /\ yqCalls.SearchForYq <= 1
    /\ yqCalls.CreateTemp <= 1
    /\ Cardinality(tmpDir) <= 1
    /\ \A g, h \in Goroutines :
          \A i \in 1..Len(yqResults[g]), j \in 1..Len(yqResults[h]) :
              yqResults[g][i] = yqResults[h][j]

\* Every goroutine has called GetYqPath twice and every call returned the one
\* extracted file.
C15_Witness ==
    /\ \A g \in Goroutines : Len(yqResults[g]) = MaxCalls
    /\ yqCalls.SearchForYq = 1
    /\ foundYqPath \in tmpDir
    /\ \A g \in Goroutines : yqResults[g][1] = foundYqPath

(***************************************************************************)
(* C16  Concurrent merges on documents of their own do not interfere: in   *)
(* every interleaving of their steps each run ends with the document, the  *)
(* text, the error and the log lines that the merge gives when it runs on  *)
(* the same documents alone (the runtime ranging over the run's maps in    *)
(* the same order).                                                        *)
(***************************************************************************)
RunAlone(r) ==
    MergeRootDocumentNodes(heap0, rootNode1[r], rootNode2[r],
                           frame[r].order1, frame[r].order2)

C16_ConcurrentMergesIndependent ==
    \A r \in Runs :
        Done(r) =>
            LET alone == RunAlone(r)
            IN IF alone.err # "nil"
               THEN mergedDoc[r] = NilNode /\ errMerge[r] = "Failed to merge YAML nodes"
               ELSE /\ mergedDoc[r] # NilNode
                    /\ Tree(heap, mergedDoc[r]) = Tree(alone.heap, alone.node)
                    /\ yamlOut[r] = Encode(alone.heap, alone.node).text
                    /\ logged[r] = alone.logged
                    /\ errMerge[r] = IF Encode(alone.heap, alone.node).err
                                     THEN "Failed to encode merged YAML" ELSE "nil"

\* Both runs are over, each having merged sequences under "kind" and emitted
\* a leftover key, with the steps of one run between the steps of the other:
\* a node of run 1 was allocated after the merged mapping of run 2 and the
\* other way round.
C16_Witness ==
    /\ \A r \in Runs : Merged(r) /\ OutKeys(r) = <<"kind", "extra", "zeta">>
    /\ \A r \in Runs : BothSequences(r, "kind")
    /\ frame[1].mergedNode < frame[2].mergedNode
    /\ frame[2].mergedNode < OutValue(1, "kind")
    /\ OutValue(1, "kind") < OutValue(2, "kind")

(***************************************************************************)
(* C17  CopyAndMergeYAMLDir, once it has returned.  As claimed: for every  *)
(* file of the embedded tree, if its name ends in .yaml or .yml but not in *)
(* .patch.yaml or .patch.yml and a regular file stood at the destination,  *)
(* the destination holds the merge of that file (primary) and the embedded *)
(* file (secondary); in every other case it holds the embedded bytes.      *)
(***************************************************************************)
Returned == walkErr # "nil" \/ walkPos > Len(embedded)

EndsIn(name, ext) == Len(name) >= 2 /\ name[Len(name)] = ext

IsPatchName(name) == Len(name) >= 3 /\ name[Len(name) - 1] = "patch"

MergeCase(i) ==
    /\ EndsIn(embedded[i].name, "yaml") \/ EndsIn(embedded[i].name, "yml")
    /\ ~IsPatchName(embedded[i].name)
    /\ target0[i].kind = "file"

\* The texts that are a merge of the destination as primary and the embedded
\* file as secondary.
MergedTexts(i) ==
    {m.text : m \in {x \in MergeYAMLFilesResults(AsDiskFile("dest", target0[i].content),
                                                 AsDiskFile("embed-*.yaml", embedded[i].content)) :
                        x.err = "nil"}}

HoldsMerge(i) ==
    /\ target[i].kind = "file"
    /\ target[i].content.parseErr = "nil"
    /\ target[i].content.text \in MergedTexts(i)

HoldsEmbeddedBytes(i) ==
    /\ target[i].kind = "file"
    /\ [target[i].content EXCEPT !.readErr = "nil"] = embedded[i].content

Files == {i \in 1..Len(embedded) : ~embedded[i].isDir}

C17_MergeOrOverwrite ==
    Returned =>
        \A i \in Files :
            IF MergeCase(i) THEN HoldsMerge(i) ELSE HoldsEmbeddedBytes(i)

(***************************************************************************)
(* C17 as amended: the walk visits the files in order up to the first step *)
(* that fails.  A visited file is merged exactly in the case above, and    *)
(* otherwise holds the embedded bytes.  The step fails whenever the        *)
(* destination is a directory or the merge returns an error; it then       *)
(* leaves the destination as it was, as are all files after it.            *)
(***************************************************************************)
C17_MergeOrOverwriteUntilError ==
    \A i \in Files :
        /\ i < walkPos =>
              /\ target0[i].kind # "dir"
              /\ IF MergeCase(i) THEN HoldsMerge(i) ELSE HoldsEmbeddedBytes(i)
        /\ (i > walkPos \/ (i = walkPos /\ walkErr = "nil")) => target[i] = target0[i]
        /\ (i = walkPos /\ walkErr # "nil") =>
              /\ MergeCase(i) <=> walkErr \in {"Failed to create temporary file for embedded YAML",
                                              "Failed to write embedded YAML to temporary file",
                                              "Failed to merge", "Failed to write merged YAML"}
              /\ (target0[i].kind = "dir" \/ walkErr = "Failed to merge")
                    => target[i] = target0[i]
              /\ walkErr = "Failed to merge" => MergedTexts(i) = {}

\* A tree of two files came through: a.yaml over an existing YAML file was
\* merged, the secondary's "kind" winning, and a patch file over an existing
\* file was copied.
C17_Witness ==
    /\ Len(embedded) = 2
    /\ walkPos = 3
    /\ embedded[1].name = <<"a", "yaml">>
    /\ MergeCase(1)
    /\ target[1].content.text = "{kind: 3, zeta: 1, extra: 3}"
    /\ embedded[2].name = <<"c", "patch", "yaml">>
    /\ target0[2].kind = "file"
    /\ HoldsEmbeddedBytes(2)

(***************************************************************************)
(* C18  Every subcommand of gcp iam, gcp cloudsql and gcp firewall runs    *)
(* the administrator check first: whatever its Run function issues comes   *)
(* after both `gcloud config get-value account` and `gcloud projects       *)
(* get-iam-policy`, and when the account is empty or the policy answer is  *)
(* not exactly roles/owner the process has ended and Run issued nothing.   *)
(***************************************************************************)
AdminSubcommands ==
    {c \in Commands : \E g \in {"gcp iam", "gcp cloudsql", "gcp firewall"} : Parent(c) = g}

IssuedAt(by, cmd) == {i \in 1..Len(issued) : issued[i].by = by /\ issued[i].cmd = cmd}

IssuedBy(by) == {i \in 1..Len(issued) : issued[i].by = by}

\* The answer with the white space around it taken off.
Answer(i) ==
    LET words == SelectSeq(issued[i].stdout, LAMBDA t : t \notin {" ", "\n", "\t"})
    IN IF issued[i].err THEN "error"
       ELSE IF Len(words) = 1 THEN words[1]
       ELSE IF Len(words) = 0 THEN "" ELSE "several lines"

C18_AdminCheckBeforeAction ==
    osArgs.command \in AdminSubcommands =>
        /\ mainPc \in {"Run", "done"} =>
              /\ IssuedAt("check", "gcloud config get-value account") # {}
              /\ IssuedAt("check", "gcloud projects get-iam-policy") # {}
        /\ \A r \in IssuedBy("Run") :
              /\ \E a \in IssuedAt("check", "gcloud config get-value account") : a < r
              /\ \E q \in IssuedAt("check", "gcloud projects get-iam-policy") : q < r
        /\ \A a \in IssuedAt("check", "gcloud config get-value account") :
              Answer(a) \in {"", "error"} => mainPc = "exited" /\ IssuedBy("Run") = {}
        /\ \A q \in IssuedAt("check", "gcloud projects get-iam-policy") :
              Answer(q) # "roles/owner" => mainPc = "exited" /\ IssuedBy("Run") = {}

\* create-user has issued its gcloud command after both checks passed.
C18_Witness ==
    /\ osArgs.command = "gcp cloudsql create-user"
    /\ mainPc = "done"
    /\ Len(issued) = 3
    /\ issued[1].cmd = "gcloud config get-value account"
    /\ issued[2].cmd = "gcloud projects get-iam-policy"
    /\ Answer(2) = "roles/owner"
    /\ issued[3] = Issued("Run", "gcloud sql users create", NoOutput)

(***************************************************************************)
(* C19  When --vpn-check-connection=true is on the command line, the VPN   *)
(* check has been made by the time the command named is run.               *)
(***************************************************************************)
C19_VPNCheckBeforeCommand ==
    (osArgs.vpnCheckConnection = "true" /\ mainPc \in {"PersistentPreRun", "Run", "done"})
        => IssuedAt("main", "CheckVPNConnection") # {}

(***************************************************************************)
(* C20  Once the configuration is loaded, the GCP project in effect is the *)
(* one of the configuration file if it has one, else the one of            *)
(* CLI_GCP_PROJECT if set, else the one of --gcp-project if given, else    *)
(* the default of config.Config.                                           *)
(***************************************************************************)
DocumentedGCPProject ==
    CASE configFiles.specific \notin {"missing", "no key"} -> configFiles.specific
      [] configFiles.specific = "missing" /\ configFiles.fallback # "missing"
            -> configFiles.fallback
      [] OTHER -> IF environ # "unset" THEN environ
                  ELSE IF osArgs.gcpProject # "unset" THEN osArgs.gcpProject
                  ELSE "change-here"

C20_DocumentedPrecedence ==
    mainPc \in {"PersistentPreRun", "Run", "done"}
        => Properties.DefaultGCPProject = DocumentedGCPProject

\* What the code does: the configuration file, else the option, else the
\* default; CLI_GCP_PROJECT is never read.
C20_CodeIgnoresEnvironment ==
    mainPc \in {"PersistentPreRun", "Run", "done"}
        => Properties.DefaultGCPProject =
              IF ConfigFileUsed \notin {"missing", "no key"} THEN ConfigFileUsed
              ELSE IF osArgs.gcpProject # "unset" THEN osArgs.gcpProject
              ELSE "change-here"

(***************************************************************************)
(* C21  Every call of ModifyYamlInPlace: with an empty path or an empty    *)
(* expression it returns an error, the file system is as before and yq was *)
(* not run; otherwise, if yq was run, the directory and the file stood     *)
(* there when it ran (created when they were missing), and if yq failed    *)
(* the call returned an error.                                             *)
(***************************************************************************)
C21_ModifyCreatesBeforeYq ==
    \A k \in 1..Len(modCalls) :
        LET c == modCalls[k]
        IN IF c.filePath = "" \/ c.fullExpression = ""
           THEN c.returned /\ c.err # "nil" /\ c.atYq = c.before /\ c.yq = "not run"
           ELSE /\ c.yq # "not run" =>
                     /\ c.atYq.dir \notin {"missing", "denied"}
                     /\ c.atYq.file \notin {"missing", "denied"}
                     /\ c.before.dir = "missing" => c.atYq.dir = "dir"
                     /\ c.before.file = "missing" => c.atYq.file = "file"
                /\ c.yq = "failed" => c.returned /\ c.err # "nil"

\* A call found neither the directory nor the file, created both, and yq ran.
C21_Witness ==
    \E k \in 1..Len(modCalls) :
        /\ modCalls[k].before = [dir |-> "missing", file |-> "missing"]
        /\ modCalls[k].atYq = [dir |-> "dir", file |-> "file"]
        /\ modCalls[k].yq = "ok"
        /\ modCalls[k].err = "nil"

(***************************************************************************)
(* C22  The three create functions: when gcloud fails and its stderr says  *)
(* "already exists", the call logs a warning and ends normally; when it    *)
(* fails otherwise the process ends fatally.  So a create repeated after   *)
(* one that ended normally ends normally too, unless gcloud fails for      *)
(* another reason.                                                         *)
(***************************************************************************)
CreateFunctions ==
    {"CreateGCPIAMServiceAccount", "CreateGCPCloudSQLUser", "CreateGCPCloudSQLDatabase"}

SaysAlreadyExists(stderr) ==
    \E i \in 1..(Len(stderr) - 1) : stderr[i] = "already" /\ stderr[i + 1] = "exists"

C22_CreateIdempotent ==
    /\ \A k \in 1..Len(gcpCalls) :
          LET c == gcpCalls[k]
          IN (c.fn \in CreateFunctions /\ c.args # <<>> /\ c.answer.err) =>
                IF SaysAlreadyExists(c.answer.stderr)
                THEN c.ended = "normal" /\ c.warned
                ELSE c.ended = "fatal"
    /\ \A j, k \in 1..Len(gcpCalls) :
          (/\ j < k
           /\ gcpCalls[j].fn \in CreateFunctions
           /\ gcpCalls[j].fn = gcpCalls[k].fn
           /\ gcpCalls[j].input = gcpCalls[k].input
           /\ gcpCalls[j].ended = "normal"
           /\ gcpCalls[k].answer.err => SaysAlreadyExists(gcpCalls[k].answer.stderr))
          => gcpCalls[k].ended = "normal"

\* The same database was created twice: gcloud created it, then refused with
\* "already exists", and both calls ended normally.
C22_Witness ==
    /\ Len(gcpCalls) = 2
    /\ gcpCalls[1].fn = "CreateGCPCloudSQLDatabase"
    /\ gcpCalls[2].fn = "CreateGCPCloudSQLDatabase"
    /\ gcpCalls[1].input = gcpCalls[2].input
    /\ ~gcpCalls[1].answer.err
    /\ gcpCalls[2].answer.err
    /\ gcpCalls[2].warned
    /\ gcpCalls[1].ended = "normal"
    /\ gcpCalls[2].ended = "normal"

(***************************************************************************)
(* C23  ConnectToGKECluster: with an empty projectID, location or          *)
(* clusterName the process ends fatally and gcloud is not invoked;         *)
(* otherwise gcloud gets the location once, after --zone when the location *)
(* has exactly two hyphens and after --region in every other case.         *)
(***************************************************************************)
HasOption(args, option, value) ==
    \E i \in 1..(Len(args) - 1) : args[i] = option /\ args[i + 1] = value

Hyphens(location) == Cardinality({i \in DOMAIN location : location[i] = "-"})

C23_ZoneOrRegion ==
    \A k \in 1..Len(gcpCalls) :
        LET c == gcpCalls[k]
        IN c.fn = "ConnectToGKECluster" =>
             IF c.input.projectID = "" \/ c.input.location = <<>> \/ c.input.clusterName = ""
             THEN c.ended = "fatal" /\ c.args = <<>>
             ELSE /\ Len(c.args) = 1
                  /\ HasOption(c.args[1], "--zone", Spell(c.input.location))
                        <=> Hyphens(c.input.location) = 2
                  /\ HasOption(c.args[1], "--region", Spell(c.input.location))
                        <=> Hyphens(c.input.location) # 2
                  /\ Cardinality({i \in DOMAIN c.args[1] :
                                    c.args[1][i] \in {"--zone", "--region"}}) = 1

\* A region (one hyphen) and a zone (two) were both connected to.
C23_Witness ==
    /\ Len(gcpCalls) = 2
    /\ gcpCalls[1].fn = "ConnectToGKECluster"
    /\ gcpCalls[1].input.location = <<"us", "-", "central1">>
    /\ Len(gcpCalls[1].args) = 1
    /\ HasOption(gcpCalls[1].args[1], "--region", "us-central1")
    /\ gcpCalls[2].fn = "ConnectToGKECluster"
    /\ gcpCalls[2].input.location = <<"us", "-", "central1", "-", "a">>
    /\ Len(gcpCalls[2].args) = 1
    /\ HasOption(gcpCalls[2].args[1], "--zone", "us-central1-a")

(***************************************************************************)
(* C24  The two exports: after a gcloud failure the process has ended      *)
(* fatally with no directory and no file created.  With an empty stdout    *)
(* the audit-log export ends fatally without a file, and the firewall      *)
(* export logs a warning and, when it ends normally, has written an empty  *)
(* file.  A file that was written holds gcloud's stdout.                   *)
(***************************************************************************)
C24_ExportAfterSuccess ==
    \A k \in 1..Len(gcpCalls) :
        LET c == gcpCalls[k]
        IN c.fn \in {"ExportGCPFirewallRulesToCSV", "ExportPostgresAuditLogs"} =>
             /\ c.answer.err => c.ended = "fatal" /\ c.dirs = <<>> /\ c.files = <<>>
             /\ (~c.answer.err /\ c.answer.stdout = <<>> /\ c.fn = "ExportPostgresAuditLogs")
                   => c.ended = "fatal" /\ c.dirs = <<>> /\ c.files = <<>>
             /\ (~c.answer.err /\ c.answer.stdout = <<>> /\ c.fn = "ExportGCPFirewallRulesToCSV")
                   => /\ c.warned
                      /\ c.ended = "normal" => Len(c.files) = 1 /\ c.files[1].content = <<>>
             /\ c.ended = "normal" => Len(c.files) = 1
             /\ \A i \in 1..Len(c.files) : c.files[i].content = c.answer.stdout

\* The firewall export wrote an empty file after a warning, and the
\* audit-log export wrote what gcloud printed.
C24_Witness ==
    /\ Len(gcpCalls) = 2
    /\ gcpCalls[1].fn = "ExportGCPFirewallRulesToCSV"
    /\ gcpCalls[1].answer.stdout = <<>>
    /\ gcpCalls[1].warned
    /\ gcpCalls[1].files = <<[dir |-> "reports", content |-> <<>>]>>
    /\ gcpCalls[2].fn = "ExportPostgresAuditLogs"
    /\ gcpCalls[2].files = <<[dir |-> "", content |-> <<"row1", "row2">>]>>

Reported(in) ==
    SelectSeq(in.listing.stdout,
              LAMBDA d : d # "cloudsqladmin"
                         /\ ~(in.excludePattern # "" /\ MatchString(in.excludePattern, d)))

\* The answer psql gave for a database of the listing.
AnswerFor(in, d) ==
    in.permAnswers[CHOOSE i \in DOMAIN in.listing.stdout : in.listing.stdout[i] = d]

KeptRows(rows) == SelectSeq(rows, LAMBDA r : Len(r) = 3 /\ r[1] # "PUBLIC")

RECURSIVE ExpectedRows(_, _)
ExpectedRows(kept, n) ==
    IF n = 0 THEN <<>>
    ELSE ExpectedRows(kept, n - 1)
         \o (IF n = 1 \/ kept[n][1] # kept[n - 1][1]
             THEN << <<"User/Role", kept[n][1]>> >> ELSE <<>>)
         \o << <<"Table", kept[n][2]>>, <<"Permission", kept[n][3]>> >>

\* The lines of the report between one DATABASE line and the next.
SectionOf(content, k) ==
    LET heads == {i \in DOMAIN content : content[i][1] = "DATABASE"}
        start == CHOOSE i \in heads : Cardinality({j \in heads : j <= i}) = k
        next == {j \in heads : j > start}
        stop == IF next = {} THEN Len(content)
                ELSE (CHOOSE j \in next : \A l \in next : j <= l) - 1
    IN SubSeq(content, start, stop)

C25_ReportSections ==
    \A c \in {gcpCalls[k] : k \in 1..Len(gcpCalls)} :
        (c.fn = "ExportPostgresUsersAndPermissions" /\ c.files # <<>>) =>
            LET content == c.files[1].content
                reported == Reported(c.input)
            IN /\ SelectSeq(content, LAMBDA l : l[1] = "DATABASE")
                    = [k \in 1..Len(reported) |-> <<"DATABASE", reported[k]>>]
               /\ \A k \in 1..Len(reported) :
                     LET kept == KeptRows(AnswerFor(c.input, reported[k]).stdout)
                     IN SelectSeq(SectionOf(content, k),
                                  LAMBDA l : l[1] \in {"User/Role", "Table", "Permission"})
                          = ExpectedRows(kept, Len(kept))

\* A report with two sections: in the second a PUBLIC row stands between
\* two rows of alice, and alice is named once.
C25_Witness ==
    /\ Len(gcpCalls) = 1
    /\ gcpCalls[1].fn = "ExportPostgresUsersAndPermissions"
    /\ gcpCalls[1].input.listing.stdout = <<"prisma_migrate_1", "app">>
    /\ gcpCalls[1].input.excludePattern = ""
    /\ gcpCalls[1].files # <<>>
    /\ SectionOf(gcpCalls[1].files[1].content, 2)
         = << <<"DATABASE", "app">>, <<"User/Role", "alice">>,
              <<"Table", "public.t1">>, <<"Permission", "SELECT">>,
              <<"Table", "public.t2">>, <<"Permission", "SELECT">>, <<"">> >>

(***************************************************************************)
(* C26  No partial report: when psql fails or prints anything on stderr,   *)
(* for the listing or for a database that is not skipped, the process has  *)
(* ended fatally and no report is written.  A written report has no        *)
(* `Could not query permissions` line and a section for every database     *)
(* that is not skipped.                                                    *)
(***************************************************************************)
Troubled(answer) == answer.err \/ Len(answer.stderr) > 0

C26_NoPartialReport ==
    \A c \in {gcpCalls[k] : k \in 1..Len(gcpCalls)} :
        c.fn = "ExportPostgresUsersAndPermissions" =>
            /\ (\/ Troubled(c.input.listing)
                \/ \E k \in 1..Len(Reported(c.input)) :
                      Troubled(AnswerFor(c.input, Reported(c.input)[k])))
                  => c.ended = "fatal" /\ c.files = <<>>
            /\ c.ended = "normal" => Len(c.files) = 1
            /\ \A f \in {c.files[i] : i \in 1..Len(c.files)} :
                  /\ \A i \in DOMAIN f.content : f.content[i][1] # "Could not query permissions"
                  /\ \A k \in 1..Len(Reported(c.input)) :
                        \E i \in DOMAIN f.content :
                           f.content[i] = <<"DATABASE", Reported(c.input)[k]>>

\* The second database answered on stderr with exit code 0: no report.
C26_Witness ==
    /\ Len(gcpCalls) = 1
    /\ gcpCalls[1].fn = "ExportPostgresUsersAndPermissions"
    /\ gcpCalls[1].input.listing.stdout = <<"app", "shop">>
    /\ ~Troubled(gcpCalls[1].input.permAnswers[1])
    /\ ~gcpCalls[1].input.permAnswers[2].err
    /\ gcpCalls[1].input.permAnswers[2].stderr # <<>>
    /\ gcpCalls[1].args = << <<"postgres">>, <<"app">>, <<"shop">> >>
    /\ gcpCalls[1].ended = "fatal"
    /\ gcpCalls[1].files = <<>>

(***************************************************************************)
(* C27  When the merge of an existing destination YAML file fails (the     *)
(* file cannot be read or parsed, or is not a document, as an empty file), *)
(* CopyAndMergeYAMLDir returns an error at that file: the file is left as  *)
(* it was, no later entry of the tree is touched, and the entries written  *)
(* before it stay written.                                                 *)
(***************************************************************************)
Unmergeable(content) ==
    \/ content.readErr # "nil"
    \/ content.parseErr # "nil"
    \/ content.tree.Kind # "DocumentNode"

\* The callback has run on entry i.
Visited(i) == walkPos > i \/ (walkPos = i /\ walkErr # "nil")

C27_FailedMergeStopsWalk ==
    \A i \in Files :
        (MergeCase(i) /\ Unmergeable(target0[i].content) /\ Visited(i)) =>
            /\ walkPos = i
            /\ walkErr # "nil"
            /\ target[i] = target0[i]
            /\ \A j \in (i + 1)..Len(embedded) : target[j] = target0[j]
            /\ \A j \in 1..(i - 1) :
                  IF embedded[j].isDir THEN target[j].kind = "dir"
                  ELSE IF MergeCase(j) THEN HoldsMerge(j) ELSE HoldsEmbeddedBytes(j)

\* a.yaml was copied to a missing destination; the merge into the empty
\* file b.yml then failed, and a.yaml is still there.
C27_Witness ==
    /\ Len(embedded) = 2
    /\ embedded[1].name = <<"a", "yaml">>
    /\ embedded[2].name = <<"b", "yml">>
    /\ target0[1].kind = "missing"
    /\ target0[2] = [kind |-> "file", content |-> NoContent]
    /\ walkPos = 2
    /\ walkErr = "Failed to merge"
    /\ target[1].kind = "file"
    /\ target[2] = target0[2]

(***************************************************************************)
(* C28  No temporary file that CopyAndMergeYAMLDir created exists once the *)
(* processing of the entry it was created for has ended, whether that      *)
(* ended in success or in an error; and one was created for every entry    *)
(* that got as far as the merge.                                           *)
(***************************************************************************)
C28_TempFilesRemoved ==
    /\ \A k \in 1..Len(tmpEmbedFiles) :
          /\ ~tmpEmbedFiles[k].exists
          /\ Visited(tmpEmbedFiles[k].entry)
    /\ \A i \in Files :
          (MergeCase(i) /\ Visited(i)
             /\ walkErr # "Failed to create temporary file for embedded YAML")
            => \E k \in 1..Len(tmpEmbedFiles) : tmpEmbedFiles[k].entry = i

\* Two temporary files were made: the first merge went through, the second
\* failed, and neither file is left.
C28_Witness ==
    /\ Len(tmpEmbedFiles) = 2
    /\ walkPos = 2
    /\ walkErr = "Failed to merge"
    /\ tmpEmbedFiles[1] = [entry |-> 1, exists |-> FALSE]
    /\ tmpEmbedFiles[2] = [entry |-> 2, exists |-> FALSE]

(***************************************************************************)
(* C29  A key that stands more than once in an input root mapping: the     *)
(* lookup built from the mapping holds the value of its last occurrence,   *)
(* and the merged mapping holds the key once, with a value made of the     *)
(* last occurrences alone: the last occurrence of the one file that has    *)
(* the key; for a key of both files outside the preferred order the        *)
(* primary's last occurrence; for a preferred key of both files the        *)
(* secondary's last occurrence, or for two sequences a new sequence of the *)
(* items of the two last occurrences.                                      *)
(***************************************************************************)
Last(seq) == seq[Len(seq)]

Items(h, n) == Range(h[n].Content)

C29_LastDuplicateWins ==
    \A r \in Runs :
        Merged(r) =>
            \A key \in InputKeys :
                LET v1 == ValueSeq(heap0, rootNode1[r], key)
                    v2 == ValueSeq(heap0, rootNode2[r], key)
                    out == ValueSeq(heap, mergedDoc[r], key)
                IN (Len(v1) > 1 \/ Len(v2) > 1) =>
                      /\ Len(v1) > 0 =>
                            ConvertMappingNodeToMap(heap0, heap0[rootNode1[r]].Content[1])[key]
                              = Last(v1)
                      /\ Len(v2) > 0 =>
                            ConvertMappingNodeToMap(heap0, heap0[rootNode2[r]].Content[1])[key]
                              = Last(v2)
                      /\ Len(out) = 1
                      /\ IF Len(v2) = 0 THEN out[1] = Last(v1)
                         ELSE IF Len(v1) = 0 THEN out[1] = Last(v2)
                         ELSE IF key \notin PolicyKeys THEN out[1] = Last(v1)
                         ELSE IF heap0[Last(v1)].Kind = "SequenceNode"
                                 /\ heap0[Last(v2)].Kind = "SequenceNode"
                         THEN /\ out[1] \notin DOMAIN heap0
                              /\ Items(heap, out[1])
                                   \subseteq Items(heap0, Last(v1)) \cup Items(heap0, Last(v2))
                         ELSE out[1] = Last(v2)

\* Both files hold "spec" twice, with sequences as values: the output holds
\* it once, made of the items of the two last occurrences.
C29_Witness ==
    /\ Merged(1)
    /\ KeySeq(heap0, rootNode1[1]) = <<"spec", "spec">>
    /\ KeySeq(heap0, rootNode2[1]) = <<"spec", "spec">>
    /\ OutKeys(1) = <<"spec">>
    /\ heap[OutValue(1, "spec")].Kind = "SequenceNode"
    /\ Len(heap[OutValue(1, "spec")].Content) = 3
    /\ Items(heap, OutValue(1, "spec"))
         \subseteq Items(heap0, Last(ValueSeq(heap0, rootNode1[1], "spec")))
                   \cup Items(heap0, Last(ValueSeq(heap0, rootNode2[1], "spec")))

====
